---- MODULE Spec2Model ----
(***************************************************************************)
(* Model of the calendar / event / group backend:                          *)
(*   src/server/concepts/calendaring.ts  CalendaringConcept                *)
(*   src/unnamed/part_000                GroupingConcept, EventingConcept  *)
(*   src/server/routes.ts                Routes (the synchronizations)     *)
(*                                                                         *)
(* Every request is served by an async function; the event loop may switch *)
(* to another request at each `await`.  A process of the model is one      *)
(* request in flight, its pc names the collection call it performs next,   *)
(* and one action is one awaited collection call together with the         *)
(* synchronous code that follows it up to the next await.                  *)
(*                                                                         *)
(* A collection is the sequence of its documents in insertion order.       *)
(* ObjectIds are positive naturals (0 stands for "none"); their hex text   *)
(* is given by the tables below.                                           *)
(***************************************************************************)
EXTENDS Integers, Sequences, FiniteSets, TLC

\* ------------------------------------------------------------------ bounds
MaxCalendars == 2
MaxGroups == 2
MaxEvents == 2
MaxMembers == 3
MaxItems == 3
MaxRequests == 4

Procs == {"p1", "p2"}
Users == {1, 2}

\* hex text of the event ObjectIds, canonical (lower case) and upper case
EventHex == <<"e1", "e2", "e3", "e4">>
EventHexUpper == <<"E1", "E2", "E3", "E4">>
\* a field the caller left undefined
NoText == [some |-> FALSE, val |-> ""]
NoList == [some |-> FALSE, val |-> <<>>]
\* hex text of the user and group ObjectIds
UserHex == <<"u1", "u2">>
GroupHex == <<"g1", "g2", "g3", "g4">>
GroupStrings == {"g1", "g2"}
Titles == {"Smith Family"}
DateTexts == {"2024-12-31T18:30:00Z", "not-a-date"}

VARIABLES
  calendars,      \* Calendaring.calendars : Seq of CalendarDoc
  groups,         \* Grouping.groups       : Seq of GroupDoc
  events,         \* Eventing.events       : Seq of EventDoc
  eventsCreated,  \* number of ObjectIds handed out by events.createOne
  served,         \* number of requests accepted so far
  pc,             \* pc[p]  : the await the request p is at
  req,            \* req[p] : the function p runs and its arguments
  doc,            \* doc[p] : the document p read (the local `calendar`, `group`, `event`)
  res,            \* res[p] : what the request returned or threw
  solo            \* solo[p]: no other request touched a collection since p was called

vars == <<calendars, groups, events, eventsCreated, served, pc, req, doc, res, solo>>

\* ------------------------------------------------------------- collections
\* the null findOne returns
Null == [_id |-> 0]

\* updateEvent's updates parameter with no field supplied
NoUpdates == [title |-> NoText, date |-> NoText, description |-> NoText, attendees |-> NoList]

NoReq == [op |-> "none", actor |-> 0, owner |-> 0, item |-> "", event |-> 0, group |-> 0,
          invitee |-> 0, members |-> <<>>, title |-> "", date |-> 0, updates |-> NoUpdates]
NoRes == [err |-> "", msg |-> "", out |-> Null]

Min(S) == CHOOSE m \in S : \A n \in S : m <= n

\* the positions of the documents a filter { field: value } selects
matching(coll, field, value) ==
  {i \in DOMAIN coll : field \in DOMAIN coll[i] /\ coll[i][field] = value}

\* DocCollection.readOne(filter): the first matching document, or null
readOne(coll, field, value) ==
  IF matching(coll, field, value) = {} THEN Null
  ELSE coll[Min(matching(coll, field, value))]

\* DocCollection.partialUpdateOne(filter, update): $set on the first match
partialUpdateOne(coll, field, value, update) ==
  IF matching(coll, field, value) = {} THEN coll
  ELSE [coll EXCEPT ![Min(matching(coll, field, value))] =
          [f \in DOMAIN @ |-> IF f \in DOMAIN update THEN update[f] ELSE @[f]]]

\* DocCollection.createOne(item): insert, the new document is the last one
createOne(coll, item) == Append(coll, item)

\* ------------------------------------------------------------ process frame
Mid(p) == pc[p] \notin {"idle", "done"}

\* p is called: nothing has interfered with it yet
Called(p) ==
  /\ served < MaxRequests
  /\ served' = served + 1
  /\ solo' = [solo EXCEPT ![p] = TRUE]

\* p performs a collection call: every other request in flight is no longer alone
Touch(p) ==
  /\ UNCHANGED served
  /\ solo' = [q \in Procs |-> IF q # p /\ Mid(q) THEN FALSE ELSE solo[q]]

Finish(p, r) ==
  /\ pc' = [pc EXCEPT ![p] = "done"]
  /\ res' = [res EXCEPT ![p] = r]

Throw(p, e) == Finish(p, [err |-> e, msg |-> "", out |-> Null])

Goto(p, label) ==
  /\ pc' = [pc EXCEPT ![p] = label]
  /\ UNCHANGED res

Init ==
  /\ calendars = <<>>
  /\ groups = <<>>
  /\ events = <<>>
  /\ eventsCreated = 0
  /\ served = 0
  /\ pc = [p \in Procs |-> "idle"]
  /\ req = [p \in Procs |-> NoReq]
  /\ doc = [p \in Procs |-> Null]
  /\ res = [p \in Procs |-> NoRes]
  /\ solo = [p \in Procs |-> TRUE]

\* the response has been sent; the process is free for the next request
Return(p) ==
  /\ pc[p] = "done"
  /\ pc' = [pc EXCEPT ![p] = "idle"]
  /\ req' = [req EXCEPT ![p] = NoReq]
  /\ doc' = [doc EXCEPT ![p] = Null]
  /\ res' = [res EXCEPT ![p] = NoRes]
  /\ solo' = [solo EXCEPT ![p] = TRUE]
  /\ UNCHANGED <<calendars, groups, events, eventsCreated, served>>

\* ------------------------------------------------- CalendaringConcept
\* What the caller of addItem hands on: Routes.addEventToCalendar awaits
\* addItem, drops its result and answers with its own message.
addItem_result(op, r) ==
  IF op = "Routes.addEventToCalendar"
    THEN [err |-> "", msg |-> "Event added to calendar!", out |-> Null]
    ELSE r

\* mutant: the membership test never finds the item
itemsInclude_never(items, item) == FALSE

\* calendar.items.includes(item): items are strings, compared by value
itemsInclude(items, item) == \E i \in DOMAIN items : items[i] = item

\* mutant: the new array holds the new item only
addItem_updatedItems_only(items, item) == <<item>>

\* [...calendar.items, item]
addItem_updatedItems(items, item) == Append(items, item)

\* mutant: the items that are kept come out in the opposite order
removeItem_updatedItems_reversed(items, item) ==
  LET kept == SelectSeq(items, LAMBDA i : i # item) IN
    [j \in 1..Len(kept) |-> kept[Len(kept) + 1 - j]]

\* mutant: the first item is dropped, whichever it is
removeItem_updatedItems_shift(items, item) == Tail(items)

\* calendar.items.filter(i => i !== item)
removeItem_updatedItems(items, item) == SelectSeq(items, LAMBDA i : i # item)

\* mutant: the existing calendar is ignored
createCalendar_exists_never(existingCalendar) == FALSE

\* the test `if (existingCalendar)` of createCalendar
createCalendar_exists(existingCalendar) == existingCalendar # Null

CallCreateCalendar(p, op, userId) ==
  /\ pc[p] = "idle"
  /\ req' = [req EXCEPT ![p] = [NoReq EXCEPT !.op = op, !.actor = userId, !.owner = userId]]
  /\ Goto(p, "createCalendar_readOne")
  /\ Called(p)
  /\ UNCHANGED <<calendars, groups, events, eventsCreated, doc>>

\* const existingCalendar = await this.calendars.readOne({ userId })
CreateCalendarReadOne(p) ==
  /\ pc[p] = "createCalendar_readOne"
  /\ LET existingCalendar == readOne(calendars, "userId", req[p].owner) IN
       /\ doc' = [doc EXCEPT ![p] = existingCalendar]
       /\ IF createCalendar_exists(existingCalendar)
            THEN Finish(p, [err |-> "", msg |-> "User already has a calendar!", out |-> existingCalendar])
            ELSE Goto(p, "createCalendar_createOne")
  /\ Touch(p)
  /\ UNCHANGED <<calendars, groups, events, eventsCreated, req>>

\* const calendarId = await this.calendars.createOne({ userId, items: [] })
CreateCalendarCreateOne(p) ==
  /\ pc[p] = "createCalendar_createOne"
  /\ Len(calendars) < MaxCalendars
  /\ calendars' = createOne(calendars, [_id |-> Len(calendars) + 1, userId |-> req[p].owner, items |-> <<>>])
  /\ doc' = [doc EXCEPT ![p] = [_id |-> Len(calendars) + 1]]
  /\ Goto(p, "createCalendar_reread")
  /\ Touch(p)
  /\ UNCHANGED <<groups, events, eventsCreated, req>>

\* calendar: await this.calendars.readOne({ _id: calendarId })
CreateCalendarReread(p) ==
  /\ pc[p] = "createCalendar_reread"
  /\ Finish(p, [err |-> "", msg |-> "Calendar created successfully!",
                out |-> readOne(calendars, "_id", doc[p]._id)])
  /\ Touch(p)
  /\ UNCHANGED <<calendars, groups, events, eventsCreated, req, doc>>

CallAddItem(p, op, userId, item) ==
  /\ pc[p] = "idle"
  /\ req' = [req EXCEPT ![p] = [NoReq EXCEPT !.op = op, !.actor = userId, !.owner = userId, !.item = item]]
  /\ Goto(p, "addItem_readOne")
  /\ Called(p)
  /\ UNCHANGED <<calendars, groups, events, eventsCreated, doc>>

\* mutant: a missing calendar is created on the fly
AddItemReadOne_upsert(p) ==
  /\ pc[p] = "addItem_readOne"
  /\ LET calendar == readOne(calendars, "userId", req[p].owner) IN
       /\ doc' = [doc EXCEPT ![p] = calendar]
       /\ IF calendar = Null
            THEN /\ calendars' = createOne(calendars, [_id |-> Len(calendars) + 1,
                                      userId |-> req[p].owner, items |-> <<req[p].item>>])
                 /\ Finish(p, [err |-> "", msg |-> "Item added to calendar!", out |-> Null])
            ELSE /\ UNCHANGED calendars
                 /\ IF itemsInclude(calendar.items, req[p].item)
                      THEN Finish(p, [err |-> "", msg |-> "Item is already in the calendar!", out |-> Null])
                      ELSE Goto(p, "addItem_partialUpdateOne")
  /\ Touch(p)
  /\ UNCHANGED <<groups, events, eventsCreated, req>>

\* const calendar = await this.calendars.readOne({ userId }); the two early exits
AddItemReadOne(p) ==
  /\ pc[p] = "addItem_readOne"
  /\ LET calendar == readOne(calendars, "userId", req[p].owner) IN
       /\ doc' = [doc EXCEPT ![p] = calendar]
       /\ IF calendar = Null
            THEN Throw(p, "NotFound")
            ELSE IF itemsInclude(calendar.items, req[p].item)
              THEN Finish(p, addItem_result(req[p].op,
                             [err |-> "", msg |-> "Item is already in the calendar!", out |-> Null]))
              ELSE Goto(p, "addItem_partialUpdateOne")
  /\ Touch(p)
  /\ UNCHANGED <<calendars, groups, events, eventsCreated, req>>

\* await this.calendars.partialUpdateOne({ userId }, { items: updatedItems })
AddItemPartialUpdateOne(p) ==
  /\ pc[p] = "addItem_partialUpdateOne"
  /\ Len(doc[p].items) < MaxItems
  /\ calendars' = partialUpdateOne(calendars, "userId", req[p].owner,
                     [items |-> addItem_updatedItems(doc[p].items, req[p].item)])
  /\ Goto(p, "addItem_reread")
  /\ Touch(p)
  /\ UNCHANGED <<groups, events, eventsCreated, req, doc>>

\* calendar: await this.calendars.readOne({ userId })
AddItemReread(p) ==
  /\ pc[p] = "addItem_reread"
  /\ Finish(p, addItem_result(req[p].op,
                [err |-> "", msg |-> "Item added to calendar!",
                 out |-> readOne(calendars, "userId", req[p].owner)]))
  /\ Touch(p)
  /\ UNCHANGED <<calendars, groups, events, eventsCreated, req, doc>>

CallRemoveItem(p, userId, item) ==
  /\ pc[p] = "idle"
  /\ req' = [req EXCEPT ![p] = [NoReq EXCEPT !.op = "removeItem", !.owner = userId, !.item = item]]
  /\ Goto(p, "removeItem_readOne")
  /\ Called(p)
  /\ UNCHANGED <<calendars, groups, events, eventsCreated, doc>>

\* const calendar = await this.calendars.readOne({ userId }); the two early exits
RemoveItemReadOne(p) ==
  /\ pc[p] = "removeItem_readOne"
  /\ LET calendar == readOne(calendars, "userId", req[p].owner) IN
       /\ doc' = [doc EXCEPT ![p] = calendar]
       /\ IF calendar = Null
            THEN Throw(p, "NotFound")
            ELSE IF ~itemsInclude(calendar.items, req[p].item)
              THEN Finish(p, [err |-> "", msg |-> "Item not found in the calendar!", out |-> Null])
              ELSE Goto(p, "removeItem_partialUpdateOne")
  /\ Touch(p)
  /\ UNCHANGED <<calendars, groups, events, eventsCreated, req>>

\* await this.calendars.partialUpdateOne({ userId }, { items: updatedItems })
RemoveItemPartialUpdateOne(p) ==
  /\ pc[p] = "removeItem_partialUpdateOne"
  /\ calendars' = partialUpdateOne(calendars, "userId", req[p].owner,
                     [items |-> removeItem_updatedItems(doc[p].items, req[p].item)])
  /\ Goto(p, "removeItem_reread")
  /\ Touch(p)
  /\ UNCHANGED <<groups, events, eventsCreated, req, doc>>

\* calendar: await this.calendars.readOne({ userId })
RemoveItemReread(p) ==
  /\ pc[p] = "removeItem_reread"
  /\ Finish(p, [err |-> "", msg |-> "Item removed from calendar!",
                out |-> readOne(calendars, "userId", req[p].owner)])
  /\ Touch(p)
  /\ UNCHANGED <<calendars, groups, events, eventsCreated, req, doc>>

\* the calls of the calendar store, as any caller may issue them
CalendarItems == {"e1", "e2"}

NextCal ==
  \E p \in Procs :
    \/ \E u \in Users : CallCreateCalendar(p, "createCalendar", u)
    \/ CreateCalendarReadOne(p)
    \/ CreateCalendarCreateOne(p)
    \/ CreateCalendarReread(p)
    \/ \E u \in Users, i \in CalendarItems : CallAddItem(p, "addItem", u, i)
    \/ AddItemReadOne(p)
    \/ AddItemPartialUpdateOne(p)
    \/ AddItemReread(p)
    \/ \E u \in Users, i \in CalendarItems : CallRemoveItem(p, u, i)
    \/ RemoveItemReadOne(p)
    \/ RemoveItemPartialUpdateOne(p)
    \/ RemoveItemReread(p)
    \/ Return(p)

SpecCal == Init /\ [][NextCal]_vars

\* a state the calendar store reaches: user 1 created a calendar and added
\* "e1", "e2" and "e3" in that order, user 2 created one and added "e2"
InitRemove ==
  /\ calendars = createOne(createOne(<<>>, [_id |-> 1, userId |-> 1, items |-> <<"e1", "e2", "e3">>]),
                           [_id |-> 2, userId |-> 2, items |-> <<"e2">>])
  /\ groups = <<>>
  /\ events = <<>>
  /\ eventsCreated = 0
  /\ served = 0
  /\ pc = [p \in Procs |-> "idle"]
  /\ req = [p \in Procs |-> NoReq]
  /\ doc = [p \in Procs |-> Null]
  /\ res = [p \in Procs |-> NoRes]
  /\ solo = [p \in Procs |-> TRUE]

\* the users removeItem is called for: the two with a calendar and one without
RemoveUsers == {1, 2, 3}
RemoveItems == {"e1", "e2", "e3"}

\* removeItem on calendars of several items, next to addItem
NextRemove ==
  \E p \in Procs :
    \/ \E u \in RemoveUsers, i \in RemoveItems : CallRemoveItem(p, u, i)
    \/ RemoveItemReadOne(p)
    \/ RemoveItemPartialUpdateOne(p)
    \/ RemoveItemReread(p)
    \/ \E u \in Users, i \in RemoveItems : CallAddItem(p, "addItem", u, i)
    \/ AddItemReadOne(p)
    \/ AddItemPartialUpdateOne(p)
    \/ AddItemReread(p)
    \/ Return(p)

SpecRemove == InitRemove /\ [][NextRemove]_vars

\* ------------------------------------- CalendaringConcept.getItemsByGroupMembers
\* the locals of getItemsByGroupMembers: the items collected so far and the
\* position of the next memberId of the for loop
getItems_locals(items, next) == [_id |-> 0, items |-> items, next |-> next]

\* mutant: the items of the last calendar read replace the collected ones
getItems_push_last(items, calendar) ==
  IF calendar # Null THEN calendar.items ELSE items

\* if (calendar) items.push(...calendar.items)
getItems_push(items, calendar) ==
  IF calendar # Null THEN items \o calendar.items ELSE items

\* return items; Routes.getCalendarEventsByGroupId wraps them with its message
getItems_result(op, items) ==
  [err |-> "",
   msg |-> IF op = "Routes.getCalendarEventsByGroupId"
             THEN "Fetched calendar events for group members!" ELSE "",
   out |-> [items |-> items]]

\* const items = []; an empty memberIds list returns before any await
CallGetItemsByGroupMembers(p, memberIds) ==
  /\ pc[p] = "idle"
  /\ req' = [req EXCEPT ![p] = [NoReq EXCEPT !.op = "getItemsByGroupMembers", !.members = memberIds]]
  /\ doc' = [doc EXCEPT ![p] = getItems_locals(<<>>, 1)]
  /\ IF memberIds = <<>>
       THEN Finish(p, [err |-> "", msg |-> "", out |-> [items |-> <<>>]])
       ELSE Goto(p, "getItemsByGroupMembers_readOne")
  /\ Called(p)
  /\ UNCHANGED <<calendars, groups, events, eventsCreated>>

\* one round of the loop: const calendar = await this.calendars.readOne({ userId: memberId })
GetItemsByGroupMembersReadOne(p) ==
  /\ pc[p] = "getItemsByGroupMembers_readOne"
  /\ LET memberId == req[p].members[doc[p].next]
         calendar == readOne(calendars, "userId", memberId)
         items == getItems_push(doc[p].items, calendar) IN
       /\ doc' = [doc EXCEPT ![p] = getItems_locals(items, doc[p].next + 1)]
       /\ IF doc[p].next = Len(req[p].members)
            THEN Finish(p, getItems_result(req[p].op, items))
            ELSE Goto(p, "getItemsByGroupMembers_readOne")
  /\ Touch(p)
  /\ UNCHANGED <<calendars, groups, events, eventsCreated, req>>

\* the member lists a caller passes: none, two users, the same user twice
MemberIdLists == {<<>>, <<1, 2>>, <<2, 2>>}

NextAgg ==
  \/ NextCal
  \/ \E p \in Procs :
       \/ \E m \in MemberIdLists : CallGetItemsByGroupMembers(p, m)
       \/ GetItemsByGroupMembersReadOne(p)

SpecAgg == Init /\ [][NextAgg]_vars

\* ------------------------------------------------------------ ObjectId
\* new ObjectId(text): the id a hex text names, in either letter case; 0 when
\* the text is no ObjectId and the constructor throws BSONError
newObjectId(table, upper, text) ==
  IF \E n \in DOMAIN table : table[n] = text \/ (n \in DOMAIN upper /\ upper[n] = text)
    THEN CHOOSE n \in DOMAIN table : table[n] = text \/ (n \in DOMAIN upper /\ upper[n] = text)
    ELSE 0

\* An ObjectId held in memory is an object.  The driver builds new objects
\* for the ids of every document it reads ("read"); the ids a caller passes
\* were built by the caller ("made").
idsRead(ids) == [i \in DOMAIN ids |-> [hex |-> ids[i], inst |-> "read"]]
idMade(n) == [hex |-> n, inst |-> "made"]

\* members.includes(id) on an array of ObjectId: Array.prototype.includes
\* compares objects by identity, so an id equal in value but held in another
\* object is not found
membersInclude(members, id) == \E i \in DOMAIN members : members[i] = id

\* ------------------------------------------------------- GroupingConcept
MemberLists == {<<>>, <<1, 2>>}
\* the texts a caller passes for a userId / inviteeId; "nobody" is no ObjectId
SyncUserStrings == {"u1", "u2", "nobody"}
\* the group ids a caller may name: those that can exist and one that never does
GroupIds == 1..(MaxGroups + 1)

\* mutant: the members passed to create are stored after the creator
create_members_given(creator, members) == <<creator>> \o members

\* the members array create stores: members: [creator]
create_members(creator, members) == <<creator>>

CallCreateGroup(p, op, creator, title, members) ==
  /\ pc[p] = "idle"
  /\ req' = [req EXCEPT ![p] = [NoReq EXCEPT !.op = op, !.actor = creator, !.title = title,
                                             !.members = members]]
  /\ Goto(p, "createGroup_createOne")
  /\ Called(p)
  /\ UNCHANGED <<calendars, groups, events, eventsCreated, doc>>

\* const groupId = await this.groups.createOne({ creator, title, members: [creator], ... })
CreateGroupCreateOne(p) ==
  /\ pc[p] = "createGroup_createOne"
  /\ Len(groups) < MaxGroups
  /\ groups' = createOne(groups, [_id |-> Len(groups) + 1, creator |-> req[p].actor,
                                  title |-> req[p].title,
                                  members |-> create_members(req[p].actor, req[p].members)])
  /\ Finish(p, [err |-> "", msg |-> "Group successfully created!", out |-> [_id |-> Len(groups) + 1]])
  /\ Touch(p)
  /\ UNCHANGED <<calendars, events, eventsCreated, req, doc>>

CallInviteUser(p, groupId, invitee) ==
  /\ pc[p] = "idle"
  /\ req' = [req EXCEPT ![p] = [NoReq EXCEPT !.op = "inviteUser", !.group = groupId, !.invitee = invitee]]
  /\ Goto(p, "inviteUser_readOne")
  /\ Called(p)
  /\ UNCHANGED <<calendars, groups, events, eventsCreated, doc>>

\* const group = await this.groups.readOne({ _id: groupId }); the two early exits
InviteUserReadOne(p) ==
  /\ pc[p] = "inviteUser_readOne"
  /\ LET group == readOne(groups, "_id", req[p].group) IN
       /\ doc' = [doc EXCEPT ![p] = group]
       /\ IF group = Null
            THEN Throw(p, "NotFound")
            ELSE IF membersInclude(idsRead(group.members), idMade(req[p].invitee))
              THEN Finish(p, [err |-> "", msg |-> "User is already a member!", out |-> Null])
              ELSE Goto(p, "inviteUser_partialUpdateOne")
  /\ Touch(p)
  /\ UNCHANGED <<calendars, groups, events, eventsCreated, req>>

\* group.members.push(invitee); await this.groups.partialUpdateOne({ _id: groupId }, { members })
InviteUserPartialUpdateOne(p) ==
  /\ pc[p] = "inviteUser_partialUpdateOne"
  /\ Len(doc[p].members) < MaxMembers
  /\ groups' = partialUpdateOne(groups, "_id", req[p].group,
                  [members |-> Append(doc[p].members, req[p].invitee)])
  /\ Finish(p, [err |-> "", msg |-> "User successfully invited!", out |-> Null])
  /\ Touch(p)
  /\ UNCHANGED <<calendars, events, eventsCreated, req, doc>>

CallAssertIsInGroup(p, userId, groupId) ==
  /\ pc[p] = "idle"
  /\ req' = [req EXCEPT ![p] = [NoReq EXCEPT !.op = "assertIsInGroup", !.actor = userId, !.group = groupId]]
  /\ Goto(p, "assertIsInGroup_readOne")
  /\ Called(p)
  /\ UNCHANGED <<calendars, groups, events, eventsCreated, doc>>

\* the document assertIsInGroup works on: await this.groups.readOne({ groupId })
assertIsInGroup_group(coll, groupId) == readOne(coll, "groupId", groupId)

\* assertIsInGroup; when it returns, Routes.addToGroup goes on to inviteUser
AssertIsInGroupReadOne(p) ==
  /\ pc[p] = "assertIsInGroup_readOne"
  /\ LET group == assertIsInGroup_group(groups, req[p].group) IN
       /\ doc' = [doc EXCEPT ![p] = group]
       /\ IF group = Null
            THEN Throw(p, "NotFound")
            ELSE IF ~membersInclude(idsRead(group.members), idMade(req[p].actor))
              THEN Throw(p, "NotAllowed")
              ELSE IF req[p].op = "Routes.addToGroup"
                THEN Goto(p, "inviteUser_readOne")
                ELSE Finish(p, NoRes)
  /\ Touch(p)
  /\ UNCHANGED <<calendars, groups, events, eventsCreated, req>>

\* Routes.addToGroup: the two ObjectIds are built before the first await
CallAddToGroup(p, session, inviteeId, groupId) ==
  /\ pc[p] = "idle"
  /\ LET groupOid == newObjectId(GroupHex, <<>>, groupId)
         inviteeOid == newObjectId(UserHex, <<>>, inviteeId) IN
       /\ req' = [req EXCEPT ![p] = [NoReq EXCEPT !.op = "Routes.addToGroup", !.actor = session,
                                                  !.group = groupOid, !.invitee = inviteeOid]]
       /\ IF groupOid = 0 \/ inviteeOid = 0
            THEN Throw(p, "BSONError")
            ELSE Goto(p, "assertIsInGroup_readOne")
  /\ Called(p)
  /\ UNCHANGED <<calendars, groups, events, eventsCreated, doc>>

NextGroup ==
  \E p \in Procs :
    \/ \E u \in Users, t \in Titles, m \in MemberLists : CallCreateGroup(p, "create", u, t, m)
    \/ \E u \in Users, t \in Titles, m \in MemberLists : CallCreateGroup(p, "Routes.createGroup", u, t, m)
    \/ CreateGroupCreateOne(p)
    \/ \E g \in GroupIds, u \in Users : CallInviteUser(p, g, u)
    \/ InviteUserReadOne(p)
    \/ InviteUserPartialUpdateOne(p)
    \/ \E g \in GroupIds, u \in Users : CallAssertIsInGroup(p, u, g)
    \/ AssertIsInGroupReadOne(p)
    \/ \E s \in Users, i \in SyncUserStrings, g \in GroupStrings : CallAddToGroup(p, s, i, g)
    \/ Return(p)

SpecGroup == Init /\ [][NextGroup]_vars

\* ------------------------------------------------ GroupingConcept.leaveGroup
\* group.members.filter(member => member.toString() !== user.toString())
leaveGroup_members(members, user) == SelectSeq(members, LAMBDA member : member # user)

CallLeaveGroup(p, groupId, user) ==
  /\ pc[p] = "idle"
  /\ req' = [req EXCEPT ![p] = [NoReq EXCEPT !.op = "leaveGroup", !.group = groupId, !.actor = user]]
  /\ Goto(p, "leaveGroup_readOne")
  /\ Called(p)
  /\ UNCHANGED <<calendars, groups, events, eventsCreated, doc>>

\* leaveGroup, both awaited calls.  After readOne({ _id: groupId }) the code
\* throws NotFound for a missing group and for !group.members.includes(user);
\* only past that test does it filter the members and write them back.
LeaveGroup(p) ==
  /\ pc[p] \in {"leaveGroup_readOne", "leaveGroup_partialUpdateOne"}
  /\ IF pc[p] = "leaveGroup_readOne"
       THEN LET group == readOne(groups, "_id", req[p].group) IN
              /\ doc' = [doc EXCEPT ![p] = group]
              /\ IF group = Null
                   THEN Throw(p, "NotFound")
                   ELSE IF ~membersInclude(idsRead(group.members), idMade(req[p].actor))
                     THEN Throw(p, "NotFound")
                     ELSE Goto(p, "leaveGroup_partialUpdateOne")
              /\ UNCHANGED groups
       ELSE /\ groups' = partialUpdateOne(groups, "_id", req[p].group,
                            [members |-> leaveGroup_members(doc[p].members, req[p].actor)])
            /\ Finish(p, [err |-> "", msg |-> "You have successfully left the group!", out |-> Null])
            /\ UNCHANGED doc
  /\ Touch(p)
  /\ UNCHANGED <<calendars, events, eventsCreated, req>>

\* the calls of the group store that create groups and change their members
NextMember ==
  \E p \in Procs :
    \/ \E u \in Users, t \in Titles, m \in MemberLists : CallCreateGroup(p, "create", u, t, m)
    \/ CreateGroupCreateOne(p)
    \/ \E g \in GroupIds, u \in Users : CallInviteUser(p, g, u)
    \/ InviteUserReadOne(p)
    \/ InviteUserPartialUpdateOne(p)
    \/ \E g \in GroupIds, u \in Users : CallLeaveGroup(p, g, u)
    \/ LeaveGroup(p)
    \/ Return(p)

SpecMember == Init /\ [][NextMember]_vars

\* ------------------------------------------------------- EventingConcept
\* new Date(dateString).getTime() in seconds; -1 stands for NaN
dateTime(dateString) ==
  CASE dateString = "2024-12-31T18:30:00Z" -> 1735669800
    [] dateString = "2025-01-01T00:00:00Z" -> 1735689600
    [] OTHER -> -1

\* parseDate throws when isNaN(parsedDate.getTime())
parseDate_throws(dateString) == dateTime(dateString) = -1

\* DocCollection.deleteOne(filter): removes the first matching document
deleteOne(coll, field, value) ==
  IF matching(coll, field, value) = {} THEN coll
  ELSE LET k == Min(matching(coll, field, value)) IN
         [i \in 1..(Len(coll) - 1) |-> IF i < k THEN coll[i] ELSE coll[i + 1]]

\* create: parseDate runs before the first await
CallCreateEvent(p, creator, groupId, title, date) ==
  /\ pc[p] = "idle"
  /\ req' = [req EXCEPT ![p] = [NoReq EXCEPT !.op = "Eventing.create", !.actor = creator, !.group = groupId,
                                             !.title = title, !.date = dateTime(date)]]
  /\ IF parseDate_throws(date)
       THEN Throw(p, "Error")
       ELSE Goto(p, "createEvent_createOne")
  /\ Called(p)
  /\ UNCHANGED <<calendars, groups, events, eventsCreated, doc>>

\* const eventId = await this.events.createOne({ creator, groupId, title, date: parsedDate, ... })
CreateEventCreateOne(p) ==
  /\ pc[p] = "createEvent_createOne"
  /\ eventsCreated < MaxEvents
  /\ eventsCreated' = eventsCreated + 1
  /\ events' = createOne(events, [_id |-> eventsCreated + 1, creator |-> req[p].actor,
                                  groupId |-> req[p].group, title |-> req[p].title,
                                  date |-> req[p].date, description |-> NoText,
                                  attendees |-> NoList])
  /\ doc' = [doc EXCEPT ![p] = [_id |-> eventsCreated + 1]]
  /\ Goto(p, "createEvent_reread")
  /\ Touch(p)
  /\ UNCHANGED <<calendars, groups, req>>

\* event: await this.events.readOne({ _id: eventId })
CreateEventReread(p) ==
  /\ pc[p] = "createEvent_reread"
  /\ Finish(p, [err |-> "", msg |-> "Event successfully created!",
                out |-> readOne(events, "_id", doc[p]._id)])
  /\ Touch(p)
  /\ UNCHANGED <<calendars, groups, events, eventsCreated, req, doc>>

CallAssertCreatorIsUser(p, eventId, user) ==
  /\ pc[p] = "idle"
  /\ req' = [req EXCEPT ![p] = [NoReq EXCEPT !.op = "assertCreatorIsUser", !.actor = user, !.event = eventId]]
  /\ Goto(p, "assertCreatorIsUser_readOne")
  /\ Called(p)
  /\ UNCHANGED <<calendars, groups, events, eventsCreated, doc>>

\* mutant: the creator is not compared
assertCreatorIsUser_error_anyone(event, user) ==
  IF event = Null THEN "NotFound" ELSE ""

\* mutant: a creator mismatch is reported as a missing event
assertCreatorIsUser_error_notFound(event, user) ==
  IF event = Null THEN "NotFound"
  ELSE IF event.creator # user THEN "NotFound"
  ELSE ""

\* mutant: an event that is not stored passes the check
assertCreatorIsUser_error_absent(event, user) ==
  IF event = Null THEN ""
  ELSE IF event.creator # user THEN "NotAllowed"
  ELSE ""

\* what assertCreatorIsUser throws for the event it read: "" when it returns
assertCreatorIsUser_error(event, user) ==
  IF event = Null THEN "NotFound"
  ELSE IF event.creator # user THEN "NotAllowed"
  ELSE ""

\* assertCreatorIsUser; when it returns, Routes.deleteEventFromCalendar goes
\* on to removeItem
AssertCreatorIsUserReadOne(p) ==
  /\ pc[p] = "assertCreatorIsUser_readOne"
  /\ LET event == readOne(events, "_id", req[p].event) IN
       /\ doc' = [doc EXCEPT ![p] = event]
       /\ IF assertCreatorIsUser_error(event, req[p].actor) # ""
            THEN Throw(p, assertCreatorIsUser_error(event, req[p].actor))
            ELSE IF req[p].op = "Routes.deleteEventFromCalendar"
              THEN Goto(p, "removeItem_readOne")
              ELSE Finish(p, NoRes)
  /\ Touch(p)
  /\ UNCHANGED <<calendars, groups, events, eventsCreated, req>>

CallDeleteEvent(p, eventId) ==
  /\ pc[p] = "idle"
  /\ req' = [req EXCEPT ![p] = [NoReq EXCEPT !.op = "Eventing.delete", !.event = eventId]]
  /\ Goto(p, "deleteEvent_deleteOne")
  /\ Called(p)
  /\ UNCHANGED <<calendars, groups, events, eventsCreated, doc>>

\* mutant: deleting an event also takes the references to it out of every
\* calendar
DeleteEventDeleteOne_cascade(p) ==
  /\ pc[p] = "deleteEvent_deleteOne"
  /\ events' = deleteOne(events, "_id", req[p].event)
  /\ calendars' = [i \in DOMAIN calendars |->
                     [calendars[i] EXCEPT !.items =
                        SelectSeq(@, LAMBDA x : newObjectId(EventHex, EventHexUpper, x) # req[p].event)]]
  /\ Finish(p, [err |-> "", msg |-> "Event deleted successfully!", out |-> Null])
  /\ Touch(p)
  /\ UNCHANGED <<groups, eventsCreated, req, doc>>

\* await this.events.deleteOne({ _id: eventId })
DeleteEventDeleteOne(p) ==
  /\ pc[p] = "deleteEvent_deleteOne"
  /\ events' = deleteOne(events, "_id", req[p].event)
  /\ Finish(p, [err |-> "", msg |-> "Event deleted successfully!", out |-> Null])
  /\ Touch(p)
  /\ UNCHANGED <<calendars, groups, eventsCreated, req, doc>>

\* ------------------------------------------------------ Routes (calendar)
\* Routes.deleteEventFromCalendar: the two ObjectIds are built before the
\* first await; removeItem is given the eventId text as the caller sent it
CallDeleteEventFromCalendar(p, session, userId, eventId) ==
  /\ pc[p] = "idle"
  /\ LET eventOid == newObjectId(EventHex, EventHexUpper, eventId)
         userOid == newObjectId(UserHex, <<>>, userId) IN
       /\ req' = [req EXCEPT ![p] = [NoReq EXCEPT !.op = "Routes.deleteEventFromCalendar",
                                                  !.actor = session, !.owner = userOid,
                                                  !.event = eventOid, !.item = eventId]]
       /\ IF eventOid = 0 \/ userOid = 0
            THEN Throw(p, "BSONError")
            ELSE Goto(p, "assertCreatorIsUser_readOne")
  /\ Called(p)
  /\ UNCHANGED <<calendars, groups, events, eventsCreated, doc>>

\* the event ids a caller may name: those that can exist and one that never does
EventIds == 1..(MaxEvents + 1)
\* the events the callers of the calendar routes work on: the event "e1"
\* names and one that never exists
SyncEventIds == {1, MaxEvents + 1}
\* the texts a caller passes for an eventId; "party" is no ObjectId
SyncItemStrings == {"e1", "E1", "party"}

NextSync ==
  \E p \in Procs :
    \/ \E s \in Users : CallCreateCalendar(p, "Routes.createCalendar", s)
    \/ CreateCalendarReadOne(p)
    \/ CreateCalendarCreateOne(p)
    \/ CreateCalendarReread(p)
    \/ \E s \in Users, e \in SyncItemStrings : CallAddItem(p, "Routes.addEventToCalendar", s, e)
    \/ AddItemReadOne(p)
    \/ AddItemPartialUpdateOne(p)
    \/ AddItemReread(p)
    \/ \E s \in Users, u \in SyncUserStrings, e \in SyncItemStrings : CallDeleteEventFromCalendar(p, s, u, e)
    \/ AssertCreatorIsUserReadOne(p)
    \/ RemoveItemReadOne(p)
    \/ RemoveItemPartialUpdateOne(p)
    \/ RemoveItemReread(p)
    \/ \E u \in Users, t \in Titles : CallCreateEvent(p, u, 1, t, "2024-12-31T18:30:00Z")
    \/ CreateEventCreateOne(p)
    \/ CreateEventReread(p)
    \/ \E e \in SyncEventIds, u \in Users : CallAssertCreatorIsUser(p, e, u)
    \/ \E e \in SyncEventIds : CallDeleteEvent(p, e)
    \/ DeleteEventDeleteOne(p)
    \/ Return(p)

SpecSync == Init /\ [][NextSync]_vars

\* ------------------------------------------ Routes (calendar), user 1 set up
\* the state after user 1 has created a calendar: the calendar routes start
\* from a user with a calendar and a user without one
InitRoute ==
  /\ calendars = createOne(<<>>, [_id |-> 1, userId |-> 1, items |-> <<>>])
  /\ groups = <<>>
  /\ events = <<>>
  /\ eventsCreated = 0
  /\ served = 0
  /\ pc = [p \in Procs |-> "idle"]
  /\ req = [p \in Procs |-> NoReq]
  /\ doc = [p \in Procs |-> Null]
  /\ res = [p \in Procs |-> NoRes]
  /\ solo = [p \in Procs |-> TRUE]

\* the texts the callers of the routes pass for an eventId and a userId
RouteItemStrings == {"e1", "e2", "party"}
RouteUserStrings == {"u1", "u2"}

\* the routes that change calendar items, and the event store's create and
\* delete beside them
NextRoute ==
  \E p \in Procs :
    \/ \E s \in Users, e \in RouteItemStrings : CallAddItem(p, "Routes.addEventToCalendar", s, e)
    \/ AddItemReadOne(p)
    \/ AddItemPartialUpdateOne(p)
    \/ AddItemReread(p)
    \/ \E s \in Users, u \in RouteUserStrings, e \in RouteItemStrings :
         CallDeleteEventFromCalendar(p, s, u, e)
    \/ AssertCreatorIsUserReadOne(p)
    \/ RemoveItemReadOne(p)
    \/ RemoveItemPartialUpdateOne(p)
    \/ RemoveItemReread(p)
    \/ \E u \in Users, t \in Titles : CallCreateEvent(p, u, 1, t, "2024-12-31T18:30:00Z")
    \/ CreateEventCreateOne(p)
    \/ CreateEventReread(p)
    \/ \E e \in EventIds : CallDeleteEvent(p, e)
    \/ DeleteEventDeleteOne(p)
    \/ Return(p)

SpecRoute == InitRoute /\ [][NextRoute]_vars

\* ------------------------------------------- EventingConcept, the other calls
\* mutant: a supplied text passes the test even when it is empty
truthyText_supplied(field) == field.some

\* if (updates.title), if (updates.description), if (updates.date): a text
\* passes the test when it is supplied and not the empty string
truthyText(field) == field.some /\ field.val # ""

\* if (updates.attendees): an array passes the test whenever it is supplied
truthyList(field) == field.some

\* the fields updateEvent assigns to updateData
updateEvent_fields(updates) ==
  {f \in {"title", "description", "attendees", "date"} :
     CASE f = "attendees" -> truthyList(updates[f])
       [] OTHER -> truthyText(updates[f])}

\* mutant: the date is stored without parseDate having accepted it
updateEvent_date_unparsed(updates) == FALSE

\* updateEvent calls parseDate for a date that passed the test; it throws
\* before the first await
updateEvent_date_throws(updates) ==
  truthyText(updates.date) /\ parseDate_throws(updates.date.val)

\* mutant: the creator is written along with the supplied fields
updateEvent_updateData_creator(updates) ==
  [f \in updateEvent_fields(updates) \cup {"creator"} |->
     CASE f = "title" -> updates.title.val
       [] f = "date" -> dateTime(updates.date.val)
       [] f = "creator" -> 0
       [] OTHER -> updates[f]]

\* updateData: the supplied title, the parsed date, and the description and
\* attendees as the optional fields the document holds
updateEvent_updateData(updates) ==
  [f \in updateEvent_fields(updates) |->
     CASE f = "title" -> updates.title.val
       [] f = "date" -> dateTime(updates.date.val)
       [] OTHER -> updates[f]]

CallUpdateEvent(p, eventId, updates) ==
  /\ pc[p] = "idle"
  /\ req' = [req EXCEPT ![p] = [NoReq EXCEPT !.op = "updateEvent", !.event = eventId, !.updates = updates]]
  /\ IF updateEvent_date_throws(updates)
       THEN Throw(p, "Error")
       ELSE Goto(p, "updateEvent_partialUpdateOne")
  /\ Called(p)
  /\ UNCHANGED <<calendars, groups, events, eventsCreated, doc>>

\* await this.events.partialUpdateOne({ _id: eventId }, updateData)
UpdateEventPartialUpdateOne(p) ==
  /\ pc[p] = "updateEvent_partialUpdateOne"
  /\ events' = partialUpdateOne(events, "_id", req[p].event, updateEvent_updateData(req[p].updates))
  /\ Goto(p, "updateEvent_reread")
  /\ Touch(p)
  /\ UNCHANGED <<calendars, groups, eventsCreated, req, doc>>

\* event: await this.events.readOne({ _id: eventId })
UpdateEventReread(p) ==
  /\ pc[p] = "updateEvent_reread"
  /\ Finish(p, [err |-> "", msg |-> "Event updated successfully!",
                out |-> readOne(events, "_id", req[p].event)])
  /\ Touch(p)
  /\ UNCHANGED <<calendars, groups, events, eventsCreated, req, doc>>

\* DocCollection.deleteMany({ creator, groupId }): removes every match
deleteMany(coll, creator, groupId) ==
  SelectSeq(coll, LAMBDA e : ~(e.creator = creator /\ e.groupId = groupId))

CallDeleteEventsByCreatorAndGroup(p, creator, groupId) ==
  /\ pc[p] = "idle"
  /\ req' = [req EXCEPT ![p] = [NoReq EXCEPT !.op = "deleteEventsByCreatorAndGroup",
                                             !.actor = creator, !.group = groupId]]
  /\ Goto(p, "deleteEvents_deleteMany")
  /\ Called(p)
  /\ UNCHANGED <<calendars, groups, events, eventsCreated, doc>>

\* const deletedCount = await this.events.deleteMany({ creator, groupId })
DeleteEventsDeleteMany(p) ==
  /\ pc[p] = "deleteEvents_deleteMany"
  /\ events' = deleteMany(events, req[p].actor, req[p].group)
  /\ Finish(p, [err |-> "", msg |-> "events created by user in group have been deleted.",
                out |-> [deletedCount |-> Len(events) - Len(events')]])
  /\ Touch(p)
  /\ UNCHANGED <<calendars, groups, eventsCreated, req, doc>>

\* mutant: the attendees are compared as objects, which never match
attendeesSome_identity(attendees, attendeeId) == FALSE

\* event.attendees?.some(attendee => attendee.equals(attendeeId)): by value
attendeesSome(attendees, attendeeId) ==
  attendees.some /\ \E i \in DOMAIN attendees.val : attendees.val[i] = attendeeId

\* [...(event.attendees || []), attendeeId]
addAttendee_updatedAttendees(attendees, attendeeId) ==
  [some |-> TRUE, val |-> Append(IF attendees.some THEN attendees.val ELSE <<>>, attendeeId)]

CallAddAttendee(p, eventId, attendeeId) ==
  /\ pc[p] = "idle"
  /\ req' = [req EXCEPT ![p] = [NoReq EXCEPT !.op = "addAttendee", !.event = eventId, !.invitee = attendeeId]]
  /\ Goto(p, "addAttendee_readOne")
  /\ Called(p)
  /\ UNCHANGED <<calendars, groups, events, eventsCreated, doc>>

\* const event = await this.events.readOne({ _id: eventId }); the two early exits
AddAttendeeReadOne(p) ==
  /\ pc[p] = "addAttendee_readOne"
  /\ LET event == readOne(events, "_id", req[p].event) IN
       /\ doc' = [doc EXCEPT ![p] = event]
       /\ IF event = Null
            THEN Throw(p, "NotFound")
            ELSE IF attendeesSome(event.attendees, req[p].invitee)
              THEN Finish(p, [err |-> "", msg |-> "Attendee is already added!", out |-> Null])
              ELSE Goto(p, "addAttendee_partialUpdateOne")
  /\ Touch(p)
  /\ UNCHANGED <<calendars, groups, events, eventsCreated, req>>

\* await this.events.partialUpdateOne({ _id: eventId }, { attendees: updatedAttendees })
AddAttendeePartialUpdateOne(p) ==
  /\ pc[p] = "addAttendee_partialUpdateOne"
  /\ Len(addAttendee_updatedAttendees(doc[p].attendees, req[p].invitee).val) <= MaxMembers
  /\ events' = partialUpdateOne(events, "_id", req[p].event,
                  [attendees |-> addAttendee_updatedAttendees(doc[p].attendees, req[p].invitee)])
  /\ Goto(p, "addAttendee_reread")
  /\ Touch(p)
  /\ UNCHANGED <<calendars, groups, eventsCreated, req, doc>>

\* event: await this.events.readOne({ _id: eventId })
AddAttendeeReread(p) ==
  /\ pc[p] = "addAttendee_reread"
  /\ Finish(p, [err |-> "", msg |-> "Attendee added successfully!",
                out |-> readOne(events, "_id", req[p].event)])
  /\ Touch(p)
  /\ UNCHANGED <<calendars, groups, events, eventsCreated, req, doc>>

\* a supplied field of the updates parameter
Some(v) == [some |-> TRUE, val |-> v]

\* the updates a caller passes: nothing; one field, empty or not; all four
\* fields with a date that parses and with one that does not
FullUpdates ==
  {[title |-> Some("Lunch"), date |-> Some(d), description |-> Some("Bring food"),
    attendees |-> Some(<<2>>)] : d \in {"2025-01-01T00:00:00Z", "not-a-date"}}

Updates ==
  {NoUpdates,
   [NoUpdates EXCEPT !.title = Some("")],
   [NoUpdates EXCEPT !.title = Some("Lunch")],
   [NoUpdates EXCEPT !.date = Some("")],
   [NoUpdates EXCEPT !.description = Some("")],
   [NoUpdates EXCEPT !.attendees = Some(<<>>)]} \cup FullUpdates

\* the creator and the group of the events a caller creates
EventOrigins == {<<1, 2>>, <<2, 1>>}
EventGroups == {1, 2}

\* create and updateEvent, with every kind of update
NextUpdate ==
  \E p \in Procs :
    \/ \E o \in EventOrigins, t \in Titles, d \in DateTexts : CallCreateEvent(p, o[1], o[2], t, d)
    \/ CreateEventCreateOne(p)
    \/ CreateEventReread(p)
    \/ \E e \in EventIds, u \in Updates : CallUpdateEvent(p, e, u)
    \/ UpdateEventPartialUpdateOne(p)
    \/ UpdateEventReread(p)
    \/ Return(p)

SpecUpdate == Init /\ [][NextUpdate]_vars

\* every call of the event store that writes
NextEvent ==
  \E p \in Procs :
    \/ \E o \in EventOrigins, t \in Titles, d \in DateTexts : CallCreateEvent(p, o[1], o[2], t, d)
    \/ CreateEventCreateOne(p)
    \/ CreateEventReread(p)
    \/ \E e \in EventIds, u \in FullUpdates : CallUpdateEvent(p, e, u)
    \/ UpdateEventPartialUpdateOne(p)
    \/ UpdateEventReread(p)
    \/ \E e \in EventIds, a \in Users : CallAddAttendee(p, e, a)
    \/ AddAttendeeReadOne(p)
    \/ AddAttendeePartialUpdateOne(p)
    \/ AddAttendeeReread(p)
    \/ \E e \in EventIds : CallDeleteEvent(p, e)
    \/ DeleteEventDeleteOne(p)
    \/ \E u \in Users, g \in EventGroups : CallDeleteEventsByCreatorAndGroup(p, u, g)
    \/ DeleteEventsDeleteMany(p)
    \/ Return(p)

SpecEvent == Init /\ [][NextEvent]_vars

\* the three stores side by side: the writing calls of the calendar store,
\* the group store and the event store, on one user, one group and the
\* events of that user in that group
NextStores ==
  \E p \in Procs :
    \/ CallCreateCalendar(p, "createCalendar", 1)
    \/ CreateCalendarReadOne(p)
    \/ CreateCalendarCreateOne(p)
    \/ CreateCalendarReread(p)
    \/ CallAddItem(p, "addItem", 1, "e1")
    \/ AddItemReadOne(p)
    \/ AddItemPartialUpdateOne(p)
    \/ AddItemReread(p)
    \/ CallRemoveItem(p, 1, "e1")
    \/ RemoveItemReadOne(p)
    \/ RemoveItemPartialUpdateOne(p)
    \/ RemoveItemReread(p)
    \/ \E t \in Titles : CallCreateGroup(p, "create", 1, t, <<>>)
    \/ CreateGroupCreateOne(p)
    \/ CallInviteUser(p, 1, 2)
    \/ InviteUserReadOne(p)
    \/ InviteUserPartialUpdateOne(p)
    \/ CallLeaveGroup(p, 1, 2)
    \/ LeaveGroup(p)
    \/ \E t \in Titles : CallCreateEvent(p, 1, 1, t, "2024-12-31T18:30:00Z")
    \/ CreateEventCreateOne(p)
    \/ CreateEventReread(p)
    \/ \E e \in SyncEventIds : CallDeleteEvent(p, e)
    \/ DeleteEventDeleteOne(p)
    \/ CallDeleteEventsByCreatorAndGroup(p, 1, 1)
    \/ DeleteEventsDeleteMany(p)
    \/ Return(p)

SpecStores == Init /\ [][NextStores]_vars

\* Routes.getCalendarEventsByGroupId: new ObjectId(groupId) throws for a text
\* that is no ObjectId; otherwise the route awaits Grouping.getMembers
CallGetCalendarEventsByGroupId(p, groupId) ==
  /\ pc[p] = "idle"
  /\ LET groupoid == newObjectId(GroupHex, <<>>, groupId) IN
       /\ req' = [req EXCEPT ![p] = [NoReq EXCEPT !.op = "Routes.getCalendarEventsByGroupId",
                                                  !.group = groupoid]]
       /\ IF groupoid = 0
            THEN Throw(p, "BSONError")
            ELSE Goto(p, "getMembers_readOne")
  /\ Called(p)
  /\ UNCHANGED <<calendars, groups, events, eventsCreated, doc>>

\* getMembers: const group = await this.groups.readOne({ _id: groupId });
\* NotFound without a group; the route passes group.members on to
\* getItemsByGroupMembers, which returns before any await when there are none
GetMembersReadOne(p) ==
  /\ pc[p] = "getMembers_readOne"
  /\ LET group == readOne(groups, "_id", req[p].group) IN
       IF group = Null
         THEN /\ Throw(p, "NotFound")
              /\ UNCHANGED <<req, doc>>
         ELSE /\ req' = [req EXCEPT ![p].members = group.members]
              /\ doc' = [doc EXCEPT ![p] = getItems_locals(<<>>, 1)]
              /\ IF group.members = <<>>
                   THEN Finish(p, getItems_result(req[p].op, <<>>))
                   ELSE Goto(p, "getItemsByGroupMembers_readOne")
  /\ Touch(p)
  /\ UNCHANGED <<calendars, groups, events, eventsCreated>>

\* a state the stores reach: user 1 created a group and then invited
\* themselves, which inviteUser answers by adding them a second time; user 1
\* has an empty calendar and user 2 one holding "e2"
InitView ==
  /\ calendars = createOne(createOne(<<>>, [_id |-> 1, userId |-> 1, items |-> <<>>]),
                           [_id |-> 2, userId |-> 2, items |-> <<"e2">>])
  /\ groups = createOne(<<>>, [_id |-> 1, creator |-> 1, title |-> "Smith Family",
                               members |-> Append(create_members(1, <<>>), 1)])
  /\ events = <<>>
  /\ eventsCreated = 0
  /\ served = 0
  /\ pc = [p \in Procs |-> "idle"]
  /\ req = [p \in Procs |-> NoReq]
  /\ doc = [p \in Procs |-> Null]
  /\ res = [p \in Procs |-> NoRes]
  /\ solo = [p \in Procs |-> TRUE]

\* the group ids a caller of the route passes: the group, no group, no ObjectId
ViewGroupStrings == {"g1", "g2", "home"}

\* the aggregation route next to the calls that change what it reads
NextView ==
  \E p \in Procs :
    \/ \E g \in ViewGroupStrings : CallGetCalendarEventsByGroupId(p, g)
    \/ GetMembersReadOne(p)
    \/ GetItemsByGroupMembersReadOne(p)
    \/ CallInviteUser(p, 1, 2)
    \/ InviteUserReadOne(p)
    \/ InviteUserPartialUpdateOne(p)
    \/ \E u \in Users : CallLeaveGroup(p, 1, u)
    \/ LeaveGroup(p)
    \/ CallAddItem(p, "addItem", 1, "e1")
    \/ AddItemReadOne(p)
    \/ AddItemPartialUpdateOne(p)
    \/ AddItemReread(p)
    \/ CallRemoveItem(p, 1, "e1")
    \/ RemoveItemReadOne(p)
    \/ RemoveItemPartialUpdateOne(p)
    \/ RemoveItemReread(p)
    \/ Return(p)

SpecView == InitView /\ [][NextView]_vars

\* ================================================================ claims
\* p takes a step in this transition
Stepped(p) == pc'[p] # pc[p]

\* the position of the document readOne / partialUpdateOne work on
first(coll, field, value) == Min(matching(coll, field, value))

\* membership by value: the user id occurs in the stored members array
isMember(group, user) == \E i \in DOMAIN group.members : group.members[i] = user

\* ---------------------------------------------------------------- C1
\* C1 (as claimed): in Routes.addToGroup, when the session user is a member
\* of the existing group g, assertIsInGroup succeeds and inviteUser runs, so
\* that the invitee is a member when the route returns; when the session
\* user is not a member the route fails with NotAllowed and g is unchanged.
C1_AddToGroupStep(p) ==
  /\ (pc[p] = "assertIsInGroup_readOne" /\ readOne(groups, "_id", req[p].group) # Null) =>
       IF isMember(readOne(groups, "_id", req[p].group), req[p].actor)
         THEN pc'[p] = "inviteUser_readOne"
         ELSE pc'[p] = "done" /\ res'[p].err = "NotAllowed" /\ groups' = groups
  /\ (pc[p] \in {"inviteUser_readOne", "inviteUser_partialUpdateOne"} /\ pc'[p] = "done"
      /\ res'[p].err = "") =>
       isMember(readOne(groups', "_id", req[p].group), req[p].invitee)

C1_InviteGatedOnMembership ==
  [][\A p \in Procs : (req[p].op = "Routes.addToGroup" /\ Stepped(p)) => C1_AddToGroupStep(p)]_vars

\* ---------------------------------------------------------------- C2
\* C2 (as claimed): assertIsInGroup(user, groupId) throws NotFound exactly
\* when no group has the identity groupId, NotAllowed exactly when that group
\* exists and user is not among its members, and returns otherwise.
C2_Outcome(p) ==
  LET group == readOne(groups, "_id", req[p].group)
      error == IF pc'[p] = "done" THEN res'[p].err ELSE "" IN
    /\ (error = "NotFound") = (group = Null)
    /\ (error = "NotAllowed") = (group # Null /\ ~isMember(group, req[p].actor))
    /\ (error = "") = (group # Null /\ isMember(group, req[p].actor))

C2_AssertIsInGroupByIdentity ==
  [][\A p \in Procs : (pc[p] = "assertIsInGroup_readOne" /\ Stepped(p)) => C2_Outcome(p)]_vars

\* ---------------------------------------------------------------- C3
\* C3: in Routes.deleteEventFromCalendar the only step that changes a
\* calendar is removeItem's write; it is reached only when the event exists
\* and the session user created it (otherwise the route ends with NotFound or
\* NotAllowed at assertCreatorIsUser); after the write the reference is not
\* in the calendar of the user named by userId, whoever that user is, and
\* every other calendar document is as before.
C3_RouteStep(p) ==
  CASE pc[p] = "assertCreatorIsUser_readOne" ->
         /\ calendars' = calendars
         /\ LET event == readOne(events, "_id", req[p].event) IN
              IF event # Null /\ event.creator = req[p].actor
                THEN pc'[p] = "removeItem_readOne"
                ELSE pc'[p] = "done" /\ res'[p].err \in {"NotFound", "NotAllowed"}
    [] pc[p] = "removeItem_partialUpdateOne" ->
         /\ ~itemsInclude(readOne(calendars', "userId", req[p].owner).items, req[p].item)
         /\ Len(calendars') = Len(calendars)
         /\ \A i \in DOMAIN calendars :
              i # first(calendars, "userId", req[p].owner) => calendars'[i] = calendars[i]
    [] OTHER -> calendars' = calendars

C3_CreatorRemovesFromAnyCalendar ==
  [][\A p \in Procs :
       (Stepped(p) /\ "Routes.deleteEventFromCalendar" \in {req[p].op, req'[p].op})
          => C3_RouteStep(p)]_vars

\* a creator has removed the reference from another user's calendar
C3_Witness ==
  \E p \in Procs :
    /\ pc[p] = "done"
    /\ req[p].op = "Routes.deleteEventFromCalendar"
    /\ req[p].owner # req[p].actor
    /\ res[p].msg = "Item removed from calendar!"
    /\ readOne(calendars, "userId", req[p].owner) # Null
    /\ ~itemsInclude(readOne(calendars, "userId", req[p].owner).items, req[p].item)

\* ---------------------------------------------------------------- C4
\* C4: assertCreatorIsUser(eventId, user) throws NotFound when no event has
\* the identity eventId, NotAllowed when the event exists with another
\* creator, returns when the creator is user, and never changes the events.
C4_Outcome(p) ==
  LET event == readOne(events, "_id", req[p].event)
      returned == IF req[p].op = "Routes.deleteEventFromCalendar"
                    THEN pc'[p] = "removeItem_readOne"
                    ELSE pc'[p] = "done" /\ res'[p].err = "" IN
    /\ events' = events
    /\ eventsCreated' = eventsCreated
    /\ IF event = Null THEN pc'[p] = "done" /\ res'[p].err = "NotFound"
       ELSE IF event.creator # req[p].actor THEN pc'[p] = "done" /\ res'[p].err = "NotAllowed"
       ELSE returned

C4_AssertCreatorIsUser ==
  [][\A p \in Procs : (pc[p] = "assertCreatorIsUser_readOne" /\ Stepped(p)) => C4_Outcome(p)]_vars

\* an existing event was refused to a user who did not create it
C4_Witness ==
  \E p \in Procs :
    /\ pc[p] = "done"
    /\ req[p].op = "assertCreatorIsUser"
    /\ res[p].err = "NotAllowed"
    /\ doc[p] # Null
    /\ doc[p].creator # req[p].actor

\* ---------------------------------------------------------------- C5
\* p has completed addItem(u, item) with the "added" result
Added(p, u) ==
  /\ pc[p] = "done"
  /\ req[p].op = "addItem"
  /\ req[p].owner = u
  /\ res[p].msg = "Item added to calendar!"

\* C5: of two completed addItem calls for the same user with different
\* references, both reporting success, that both read the empty items array
\* (their read-then-write sequences interleaved), exactly one reference is in
\* the calendar: the later write discarded the other.  When a call runs after
\* the other has completed and is not interleaved with any request, its write
\* keeps the other's reference and adds its own: both survive.
C5_Race ==
  \A p, q \in Procs : \A u \in Users :
    (p # q /\ Added(p, u) /\ Added(q, u) /\ req[p].item # req[q].item
       /\ doc[p].items = <<>> /\ doc[q].items = <<>>) =>
      readOne(calendars, "userId", u).items \in {<<req[p].item>>, <<req[q].item>>}

C5_Sequential(p, q) ==
  (/\ p # q
   /\ Added(p, req[q].owner)
   /\ req[q].op = "addItem"
   /\ pc[q] = "addItem_partialUpdateOne" /\ Stepped(q)
   /\ solo[q]
   /\ itemsInclude(readOne(calendars, "userId", req[q].owner).items, req[p].item)) =>
     /\ itemsInclude(readOne(calendars', "userId", req[q].owner).items, req[p].item)
     /\ itemsInclude(readOne(calendars', "userId", req[q].owner).items, req[q].item)

C5_LostUpdate ==
  [][C5_Race /\ C5_Race' /\ \A p, q \in Procs : C5_Sequential(p, q)]_vars

\* both calls reported success on the initially empty calendar, one reference is lost
C5_Witness ==
  \E p, q \in Procs : \E u \in Users :
    /\ p # q /\ Added(p, u) /\ Added(q, u)
    /\ req[p].item = "e1" /\ req[q].item = "e2"
    /\ doc[p].items = <<>> /\ doc[q].items = <<>>
    /\ Len(readOne(calendars, "userId", u).items) = 1

\* ---------------------------------------------------------------- C6
\* C6 (as claimed): in every reachable state there is at most one calendar
\* document per userId.
C6_OneCalendarPerUser ==
  \A i, j \in DOMAIN calendars :
    calendars[i].userId = calendars[j].userId => i = j

\* ---------------------------------------------------------------- C7
\* C7: in every reachable state, whatever the interleaving of createCalendar,
\* addItem and removeItem, no calendar's items array holds the same reference
\* twice.
C7_NoDuplicateItems ==
  \A c \in DOMAIN calendars : \A i, j \in DOMAIN calendars[c].items :
    calendars[c].items[i] = calendars[c].items[j] => i = j

\* two interleaved addItem calls wrote the same reference; it is there once
C7_Witness ==
  \E p, q \in Procs : \E u \in Users :
    /\ p # q /\ Added(p, u) /\ Added(q, u)
    /\ req[p].item = req[q].item
    /\ ~solo[p]
    /\ readOne(calendars, "userId", u).items = <<req[p].item>>

\* ---------------------------------------------------------------- C8
\* p has completed createCalendar(u)
Created(p, u) ==
  /\ pc[p] = "done"
  /\ req[p].op = "createCalendar"
  /\ req[p].owner = u

\* C8: createCalendar(u) creates a calendar with an empty items array when u
\* has none; when u has one it returns that calendar with the "already has a
\* calendar" result and changes no calendar; two successive calls return the
\* same calendar identity.
C8_Step(p) ==
  /\ CASE pc[p] = "createCalendar_readOne" ->
            /\ calendars' = calendars
            /\ LET existing == readOne(calendars, "userId", req[p].owner) IN
                 IF existing # Null
                   THEN /\ pc'[p] = "done"
                        /\ res'[p].msg = "User already has a calendar!"
                        /\ res'[p].out = existing
                   ELSE pc'[p] = "createCalendar_createOne"
       [] pc[p] = "createCalendar_createOne" ->
            /\ Len(calendars') = Len(calendars) + 1
            /\ \A i \in DOMAIN calendars : calendars'[i] = calendars[i]
            /\ calendars'[Len(calendars')].userId = req[p].owner
            /\ calendars'[Len(calendars')].items = <<>>
       [] OTHER -> calendars' = calendars
  /\ \A q \in Procs :
       (q # p /\ pc'[p] = "done" /\ Created(q, req[p].owner) /\ solo'[p] /\ solo'[q]) =>
          res'[p].out._id = res[q].out._id

C8_CreateCalendarIdempotent ==
  [][\A p \in Procs :
       (Stepped(p) /\ req'[p].op \in {"createCalendar", "Routes.createCalendar"}) => C8_Step(p)]_vars

\* two successive calls: one created the calendar, the other got the same one back
C8_Witness ==
  \E p, q \in Procs : \E u \in Users :
    /\ p # q /\ Created(p, u) /\ Created(q, u)
    /\ solo[p] /\ solo[q]
    /\ res[p].msg = "Calendar created successfully!"
    /\ res[q].msg = "User already has a calendar!"
    /\ res[p].out._id = res[q].out._id
    /\ res[q].out.items = res[p].out.items

\* ---------------------------------------------------------------- C9
\* C9: addItem(u, r) throws NotFound exactly when u has no calendar, and
\* that call neither creates a calendar nor changes one.
C9_Step(p) ==
  LET missing == readOne(calendars, "userId", req[p].owner) = Null IN
    /\ missing = (pc'[p] = "done" /\ res'[p].err = "NotFound")
    /\ missing => calendars' = calendars

C9_AddItemNeedsCalendar ==
  [][\A p \in Procs : (pc[p] = "addItem_readOne" /\ Stepped(p)) => C9_Step(p)]_vars

\* addItem failed for a user who has no calendar
C9_Witness ==
  \E p \in Procs :
    /\ pc[p] = "done"
    /\ req[p].op = "addItem"
    /\ res[p].err = "NotFound"
    /\ readOne(calendars, "userId", req[p].owner) = Null

\* --------------------------------------------------------------- C10
\* C10: for a user with a calendar, an addItem that no other request
\* interleaves with is a set-add: when the reference is present the call
\* returns the "already in the calendar" result and writes nothing; otherwise
\* the items become the old items followed by the reference, and every other
\* calendar document is unchanged.
C10_Step(p) ==
  CASE pc[p] = "addItem_readOne" ->
         LET calendar == readOne(calendars, "userId", req[p].owner) IN
           /\ calendars' = calendars
           /\ (calendar # Null /\ itemsInclude(calendar.items, req[p].item)) =>
                /\ pc'[p] = "done"
                /\ res'[p].msg = "Item is already in the calendar!"
           /\ (calendar # Null /\ ~itemsInclude(calendar.items, req[p].item)) =>
                pc'[p] = "addItem_partialUpdateOne"
    [] pc[p] = "addItem_partialUpdateOne" ->
         LET k == first(calendars, "userId", req[p].owner) IN
           /\ Len(calendars') = Len(calendars)
           /\ calendars'[k] = [calendars[k] EXCEPT !.items = Append(@, req[p].item)]
           /\ \A i \in DOMAIN calendars[k].items : calendars'[k].items[i] = calendars[k].items[i]
           /\ \A i \in DOMAIN calendars : i # k => calendars'[i] = calendars[i]
    [] OTHER -> calendars' = calendars

C10_AddItemSetAdd ==
  [][\A p \in Procs : (Stepped(p) /\ req[p].op = "addItem" /\ solo[p]) => C10_Step(p)]_vars

\* an uninterrupted addItem added a second reference and kept the first
C10_Witness ==
  \E p \in Procs :
    /\ pc[p] = "done"
    /\ req[p].op = "addItem"
    /\ solo[p]
    /\ res[p].msg = "Item added to calendar!"
    /\ Len(doc[p].items) = 1
    /\ res[p].out.items = Append(doc[p].items, req[p].item)

\* --------------------------------------------------------------- C11
\* p has completed addItem(u, r) with no other request interleaved; doc[p]
\* is the calendar it read, so doc[p].items is the item set S it started from
C11_AddDone(p) ==
  /\ pc[p] = "done"
  /\ req[p].op = "addItem"
  /\ res[p].err = ""
  /\ solo[p]

\* the items the addItem of p left in the calendar
C11_AfterAdd(p) ==
  IF res[p].msg = "Item added to calendar!"
    THEN Append(doc[p].items, req[p].item)
    ELSE doc[p].items

\* q writes for removeItem(u, r) directly after the addItem(u, r) of p: the
\* calendar is as p left it and nothing interleaves with q
C11_Follows(p, q) ==
  /\ p # q
  /\ C11_AddDone(p)
  /\ pc[q] = "removeItem_partialUpdateOne"
  /\ Stepped(q)
  /\ solo[q]
  /\ req[q].owner = req[p].owner
  /\ req[q].item = req[p].item
  /\ readOne(calendars, "userId", req[q].owner).items = C11_AfterAdd(p)

\* C11 as stated: for every user u with a calendar, every item set S and
\* every reference r, addItem(u, r) followed by removeItem(u, r), run one
\* after the other, leaves the items of u exactly S.
C11_RoundTrip ==
  [][\A p, q \in Procs :
       C11_Follows(p, q) =>
         readOne(calendars', "userId", req[q].owner).items = doc[p].items]_vars

\* C11 amended: the round trip restores S exactly when r is not in S; when r
\* is already in S the addItem changes nothing and the removeItem leaves S
\* without r.
C11_RoundTripOfNewItem ==
  [][\A p, q \in Procs :
       C11_Follows(p, q) =>
         LET after == readOne(calendars', "userId", req[q].owner).items
             S == doc[p].items
             r == req[p].item IN
           /\ (\A i \in DOMAIN S : S[i] # r) => after = S
           /\ (\E i \in DOMAIN S : S[i] = r) =>
                /\ C11_AfterAdd(p) = S
                /\ after = SelectSeq(S, LAMBDA i : i # r)
                /\ after # S]_vars

\* an item was added to a calendar holding another item and removed again:
\* the calendar holds what it held before
C11_Witness ==
  \E p, q \in Procs :
    /\ p # q
    /\ C11_AddDone(p)
    /\ res[p].msg = "Item added to calendar!"
    /\ doc[p].items # <<>>
    /\ pc[q] = "done"
    /\ req[q].op = "removeItem"
    /\ solo[q]
    /\ req[q].owner = req[p].owner
    /\ req[q].item = req[p].item
    /\ res[q].msg = "Item removed from calendar!"
    /\ doc[q].items = Append(doc[p].items, req[p].item)
    /\ res[q].out.items = doc[p].items

\* --------------------------------------------------------------- C12
\* p has completed removeItem(u, r) with the "removed" result, alone
C12_Removed(p) ==
  /\ pc[p] = "done"
  /\ req[p].op = "removeItem"
  /\ res[p].msg = "Item removed from calendar!"
  /\ solo[p]

\* C12: removeItem(u, r) throws NotFound when u has no calendar; when r is
\* not in the items it returns the "not found in the calendar" result and
\* changes no calendar; when r is present, the items the call leaves hold no
\* r and hold every other item the call found, in the order it found them,
\* and no other calendar changes (the items it found are the items of the
\* calendar at the write when no other request came in between); a
\* removeItem(u, r) directly after a successful one finds nothing to remove
\* and changes nothing.
C12_Step(p) ==
  CASE pc[p] = "removeItem_readOne" ->
         LET calendar == readOne(calendars, "userId", req[p].owner) IN
           /\ calendars' = calendars
           /\ (calendar = Null) = (pc'[p] = "done" /\ res'[p].err = "NotFound")
           /\ (calendar # Null /\ \A i \in DOMAIN calendar.items : calendar.items[i] # req[p].item) =>
                /\ pc'[p] = "done"
                /\ res'[p] = [err |-> "", msg |-> "Item not found in the calendar!", out |-> Null]
           /\ (calendar # Null /\ \E i \in DOMAIN calendar.items : calendar.items[i] = req[p].item) =>
                /\ pc'[p] = "removeItem_partialUpdateOne"
                /\ doc'[p] = calendar
           /\ \A q \in Procs :
                ( /\ q # p
                  /\ C12_Removed(q)
                  /\ req[q].owner = req[p].owner
                  /\ req[q].item = req[p].item
                  /\ calendar = res[q].out ) =>
                   /\ pc'[p] = "done"
                   /\ res'[p].msg = "Item not found in the calendar!"
    [] pc[p] = "removeItem_partialUpdateOne" ->
         LET k == first(calendars, "userId", req[p].owner)
             r == req[p].item
             found == doc[p].items
             left == calendars'[k].items IN
           /\ Len(calendars') = Len(calendars)
           /\ \A i \in DOMAIN calendars : i # k => calendars'[i] = calendars[i]
           /\ calendars'[k] = [calendars[k] EXCEPT !.items = left]
           /\ \A i \in DOMAIN left : left[i] # r
           /\ \A i \in DOMAIN found : found[i] # r => \E j \in DOMAIN left : left[j] = found[i]
           /\ \A i, j \in DOMAIN left : i < j =>
                \E a, b \in DOMAIN found : a < b /\ found[a] = left[i] /\ found[b] = left[j]
           /\ Len(left) = Cardinality({i \in DOMAIN found : found[i] # r})
           /\ solo[p] => found = calendars[k].items
    [] OTHER -> calendars' = calendars

C12_RemoveItem ==
  [][\A p \in Procs : (Stepped(p) /\ req[p].op = "removeItem") => C12_Step(p)]_vars

\* "e2", the second of the three references of user 1, was removed and the
\* first and the third are kept in their order; a second removeItem for "e2"
\* then read the calendar the first returned and found nothing to remove
C12_Witness ==
  \E p, q \in Procs :
    /\ p # q
    /\ C12_Removed(p)
    /\ req[p].item = "e2"
    /\ doc[p].items = <<"e1", "e2", "e3">>
    /\ res[p].out.items = <<"e1", "e3">>
    /\ readOne(calendars, "userId", req[p].owner).items = <<"e1", "e3">>
    /\ pc[q] = "done"
    /\ req[q].op = "removeItem"
    /\ req[q].owner = req[p].owner
    /\ req[q].item = req[p].item
    /\ doc[q] = res[p].out
    /\ res[q].msg = "Item not found in the calendar!"

\* --------------------------------------------------------------- C13
\* the items of the calendars of memberIds, in the order of memberIds, a
\* member without a calendar adding nothing
RECURSIVE C13_Concat(_, _)
C13_Concat(memberIds, coll) ==
  IF memberIds = <<>> THEN <<>>
  ELSE LET calendar == readOne(coll, "userId", Head(memberIds)) IN
         (IF calendar = Null THEN <<>> ELSE calendar.items) \o C13_Concat(Tail(memberIds), coll)

\* C13: getItemsByGroupMembers(memberIds) never fails, a member without a
\* calendar included; every round adds the items of that member's calendar,
\* when it has one, after the items collected so far, nothing being dropped
\* or deduplicated, so that a call no request interleaves with returns the
\* concatenation of the members' items in the order of memberIds; no step of
\* it changes a calendar.
C13_Step(p) ==
  /\ calendars' = calendars
  /\ pc'[p] = "done" => res'[p].err = ""
  /\ pc[p] = "getItemsByGroupMembers_readOne" =>
       LET n == doc[p].next
           calendar == readOne(calendars, "userId", req[p].members[n]) IN
         /\ doc'[p].items = doc[p].items \o (IF calendar = Null THEN <<>> ELSE calendar.items)
         /\ (pc'[p] = "done") = (n = Len(req[p].members))
         /\ pc'[p] = "done" => res'[p].out.items = doc'[p].items
         /\ (pc'[p] = "done" /\ solo[p]) =>
              res'[p].out.items = C13_Concat(req[p].members, calendars)

C13_GetItemsByGroupMembers ==
  [][\A p \in Procs :
       (Stepped(p) \/ doc'[p] # doc[p]) /\ req'[p].op = "getItemsByGroupMembers" => C13_Step(p)]_vars

\* members [1, 2], user 1 has a calendar with an item and user 2 has none:
\* the call returned the items of user 1
C13_Witness ==
  \E p \in Procs :
    /\ pc[p] = "done"
    /\ req[p].op = "getItemsByGroupMembers"
    /\ req[p].members = <<1, 2>>
    /\ solo[p]
    /\ readOne(calendars, "userId", 1) # Null
    /\ readOne(calendars, "userId", 2) = Null
    /\ readOne(calendars, "userId", 1).items # <<>>
    /\ res[p].err = ""
    /\ res[p].out.items = readOne(calendars, "userId", 1).items

\* --------------------------------------------------------------- C14
\* C14: create stores one new group whose members are exactly the creator,
\* whatever members argument the caller passed; the creator is a member of
\* the group from its creation; no group that existed is modified.
C14_Step(p) ==
  LET n == Len(groups) IN
    /\ Len(groups') = n + 1
    /\ \A i \in DOMAIN groups : groups'[i] = groups[i]
    /\ \A i \in DOMAIN groups : groups'[n + 1]._id # groups[i]._id
    /\ groups'[n + 1].creator = req[p].actor
    /\ groups'[n + 1].members = <<req[p].actor>>
    /\ isMember(groups'[n + 1], req[p].actor)
    /\ res'[p].out._id = groups'[n + 1]._id

C14_CreateStoresCreatorOnly ==
  [][\A p \in Procs : (pc[p] = "createGroup_createOne" /\ Stepped(p)) => C14_Step(p)]_vars

\* a second group was created with the members argument [1, 2]: its members
\* are the creator alone and the first group is as it was created
C14_Witness ==
  \E p \in Procs :
    /\ pc[p] = "done"
    /\ req[p].op \in {"create", "Routes.createGroup"}
    /\ req[p].members = <<1, 2>>
    /\ res[p].msg = "Group successfully created!"
    /\ res[p].out._id = 2
    /\ Len(groups) = 2
    /\ groups[2].members = <<req[p].actor>>
    /\ groups[1].members = <<groups[1].creator>>

\* --------------------------------------------------------------- C15
\* how often user occurs in the members of group
C15_Count(group, user) == Cardinality({i \in DOMAIN group.members : group.members[i] = user})

\* C15: inviteUser(g, m) is an idempotent set-add: it throws NotFound when g
\* does not exist; called for an m that is already a member (as on the second
\* of two calls in sequence) it returns the "already a member" result and
\* writes nothing, so that m is in the members exactly once; called for an m
\* that is not a member it adds m once.
C15_Step(p) ==
  CASE pc[p] = "inviteUser_readOne" ->
         LET group == readOne(groups, "_id", req[p].group) IN
           /\ groups' = groups
           /\ (group = Null) = (pc'[p] = "done" /\ res'[p].err = "NotFound")
           /\ (group # Null /\ isMember(group, req[p].invitee)) =>
                /\ pc'[p] = "done"
                /\ res'[p].msg = "User is already a member!"
           /\ (group # Null /\ ~isMember(group, req[p].invitee)) =>
                pc'[p] = "inviteUser_partialUpdateOne"
    [] pc[p] = "inviteUser_partialUpdateOne" ->
         solo[p] =>
           LET k == first(groups, "_id", req[p].group) IN
             /\ groups'[k].members = Append(groups[k].members, req[p].invitee)
             /\ C15_Count(groups'[k], req[p].invitee) = 1
    [] OTHER -> groups' = groups

C15_InviteUserIdempotent ==
  [][\A p \in Procs : (Stepped(p) /\ req[p].op = "inviteUser") => C15_Step(p)]_vars

\* --------------------------------------------------------------- C16
\* the users in the members of group
C16_MemberSet(group) == {group.members[i] : i \in DOMAIN group.members}

\* no group lists a user twice
C16_NoDuplicateMembers ==
  \A i \in DOMAIN groups : \A u \in Users : C15_Count(groups[i], u) <= 1

\* the write of an inviteUser or a leaveGroup changes the membership the
\* store holds at that moment by its own user only: what other completed
\* calls added stays added and what they removed stays removed
C16_WriteKeepsOthers(p) ==
  LET k == first(groups, "_id", req[p].group) IN
    /\ pc[p] = "inviteUser_partialUpdateOne" =>
         C16_MemberSet(groups'[k]) = C16_MemberSet(groups[k]) \cup {req[p].invitee}
    /\ pc[p] = "leaveGroup_partialUpdateOne" =>
         C16_MemberSet(groups'[k]) = C16_MemberSet(groups[k]) \ {req[p].actor}

\* C16: in every state reachable under any interleaving of create,
\* inviteUser and leaveGroup no group's members array holds the same user
\* twice, and no completed inviteUser or leaveGroup is undone by the write of
\* a concurrent one.
C16_MembersAreASet ==
  [][ /\ C16_NoDuplicateMembers'
      /\ \A p \in Procs :
           ( /\ pc[p] \in {"inviteUser_partialUpdateOne", "leaveGroup_partialUpdateOne"}
             /\ Stepped(p) ) => C16_WriteKeepsOthers(p) ]_vars

\* --------------------------------------------------------------- C17
\* C17: leaveGroup(g, u) throws NotFound, leaving every group unchanged,
\* exactly when g does not exist or u is not a member of g; when u is a
\* member it goes on to its write, which removes u from the members of g and
\* keeps every other member.
C17_Step(p) ==
  CASE pc[p] = "leaveGroup_readOne" ->
         LET group == readOne(groups, "_id", req[p].group) IN
           /\ groups' = groups
           /\ (group = Null \/ ~isMember(group, req[p].actor))
                = (pc'[p] = "done" /\ res'[p].err = "NotFound")
           /\ (group # Null /\ isMember(group, req[p].actor)) =>
                pc'[p] = "leaveGroup_partialUpdateOne"
    [] pc[p] = "leaveGroup_partialUpdateOne" ->
         solo[p] =>
           LET k == first(groups, "_id", req[p].group) IN
             /\ groups'[k].members =
                  SelectSeq(groups[k].members, LAMBDA member : member # req[p].actor)
             /\ \A i \in DOMAIN groups : i # k => groups'[i] = groups[i]
    [] OTHER -> groups' = groups

C17_LeaveGroup ==
  [][\A p \in Procs : (Stepped(p) /\ req[p].op = "leaveGroup") => C17_Step(p)]_vars

\* --------------------------------------------------------------- C18
\* the failures the error taxonomy names InvalidInput: the Error parseDate
\* throws for a malformed date text, the BSONError of a malformed identity
InvalidInput == {"Error", "BSONError"}

\* every stored event holds a valid date
C18_DatesValid == \A i \in DOMAIN events : events[i].date # -1

\* C18: create with an unparseable date fails with InvalidInput and stores
\* no event; with a parseable date it stores exactly one new event with the
\* supplied creator, groupId and title and returns it; every stored event
\* holds a valid date in every reachable state, updateEvent with a supplied
\* date included.
C18_Step(p) ==
  CASE pc[p] = "idle" ->
         /\ events' = events
         /\ (req'[p].date = -1) = (pc'[p] = "done" /\ res'[p].err \in InvalidInput)
         /\ (req'[p].date # -1) = (pc'[p] = "createEvent_createOne")
    [] pc[p] = "createEvent_createOne" ->
         LET n == Len(events) IN
           /\ Len(events') = n + 1
           /\ \A i \in DOMAIN events : events'[i] = events[i]
           /\ \A i \in DOMAIN events : events'[n + 1]._id # events[i]._id
           /\ events'[n + 1].creator = req[p].actor
           /\ events'[n + 1].groupId = req[p].group
           /\ events'[n + 1].title = req[p].title
           /\ events'[n + 1].date = req[p].date
           /\ doc'[p]._id = events'[n + 1]._id
    [] pc[p] = "createEvent_reread" ->
         /\ events' = events
         /\ pc'[p] = "done" /\ res'[p].err = ""
         /\ solo[p] =>
              /\ res'[p].out._id = doc[p]._id
              /\ res'[p].out.creator = req[p].actor
              /\ res'[p].out.groupId = req[p].group
              /\ res'[p].out.title = req[p].title
              /\ res'[p].out.date = req[p].date
    [] OTHER -> TRUE

C18_CreateValidatesDate ==
  [][ /\ C18_DatesValid'
      /\ \A p \in Procs :
           (Stepped(p) /\ req'[p].op = "Eventing.create") => C18_Step(p) ]_vars

\* one create failed on its date with nothing stored for it, another stored
\* and returned its event, and an updateEvent has replaced that event's date
\* by another valid one
C18_Witness ==
  \E p, q \in Procs :
    /\ pc[p] = "done"
    /\ req[p].op = "updateEvent"
    /\ res[p].msg = "Event updated successfully!"
    /\ res[p].out # Null
    /\ req[p].updates.date = Some("2025-01-01T00:00:00Z")
    /\ res[p].out.date = dateTime("2025-01-01T00:00:00Z")
    /\ readOne(events, "_id", req[p].event) = res[p].out
    /\ res[p].out.creator \in Users
    /\ pc[q] = "done"
    /\ req[q].op = "Eventing.create"
    /\ req[q].date = -1
    /\ res[q].err \in InvalidInput
    /\ Len(events) = 1

\* --------------------------------------------------------------- C19
\* the value the document holds for a supplied field of updates
C19_Stored(updates, f) ==
  CASE f = "title" -> updates.title.val
    [] f = "date" -> dateTime(updates.date.val)
    [] OTHER -> updates[f]

C19_Fields == {"title", "date", "description", "attendees"}

\* the write of updateEvent replaces the fields of Applied in the event it
\* names and changes nothing else
C19_Write(p, Applied) ==
  /\ Len(events') = Len(events)
  /\ \A i \in DOMAIN events :
       IF i = first(events, "_id", req[p].event)
         THEN /\ \A f \in Applied : events'[i][f] = C19_Stored(req[p].updates, f)
              /\ \A f \in DOMAIN events[i] \ Applied : events'[i][f] = events[i][f]
         ELSE events'[i] = events[i]

\* C19 as stated: updateEvent replaces exactly the supplied fields among
\* title, date, description and attendees, whatever value is supplied (an
\* empty title, an empty description, an empty attendee list), and leaves
\* the unsupplied fields, creator, groupId and every other event unchanged;
\* a supplied date that does not parse makes the call fail with no field
\* changed.
C19_Step(p) ==
  LET updates == req'[p].updates
      Supplied == {f \in C19_Fields : updates[f].some} IN
    CASE pc[p] = "idle" ->
           /\ events' = events
           /\ (updates.date.some /\ dateTime(updates.date.val) = -1)
                = (pc'[p] = "done" /\ res'[p].err \in InvalidInput)
      [] pc[p] = "updateEvent_partialUpdateOne" ->
           IF readOne(events, "_id", req[p].event) = Null
             THEN events' = events
             ELSE C19_Write(p, Supplied)
      [] OTHER -> events' = events

C19_UpdateReplacesSupplied ==
  [][\A p \in Procs : (Stepped(p) /\ req'[p].op = "updateEvent") => C19_Step(p)]_vars

\* C19 amended: updateEvent replaces the title, the description and the date
\* that are supplied and not the empty string, and the attendees whenever
\* they are supplied, the empty list included; a title, description or date
\* supplied as the empty string counts as not supplied.  The other fields,
\* creator, groupId and every other event are unchanged.  A supplied
\* non-empty date that does not parse makes the call fail before any write.
C19_AmendedStep(p) ==
  LET updates == req'[p].updates
      Applied == {f \in C19_Fields :
                    updates[f].some /\ (f = "attendees" \/ updates[f].val # "")} IN
    CASE pc[p] = "idle" ->
           /\ events' = events
           /\ ("date" \in Applied /\ dateTime(updates.date.val) = -1)
                = (pc'[p] = "done" /\ res'[p].err \in InvalidInput)
      [] pc[p] = "updateEvent_partialUpdateOne" ->
           IF readOne(events, "_id", req[p].event) = Null
             THEN events' = events
             ELSE C19_Write(p, Applied)
      [] OTHER -> events' = events

C19_UpdateReplacesNonEmpty ==
  [][\A p \in Procs : (Stepped(p) /\ req'[p].op = "updateEvent") => C19_AmendedStep(p)]_vars

\* an update of all four fields was applied to one of two events, then an
\* update with an empty title left that event as it was
C19_Witness ==
  \E p, q \in Procs :
    /\ p # q
    /\ pc[p] = "done" /\ req[p].op = "updateEvent" /\ solo[p]
    /\ req[p].updates \in FullUpdates
    /\ res[p].msg = "Event updated successfully!"
    /\ res[p].out # Null
    /\ res[p].out.title = "Lunch"
    /\ res[p].out.description = Some("Bring food")
    /\ res[p].out.attendees = Some(<<2>>)
    /\ pc[q] = "done" /\ req[q].op = "updateEvent" /\ solo[q]
    /\ req[q].event = req[p].event
    /\ req[q].updates = [NoUpdates EXCEPT !.title = Some("")]
    /\ res[q].msg = "Event updated successfully!"
    /\ res[q].out = res[p].out
    /\ Len(events) = 2

\* --------------------------------------------------------------- C20
\* C20: the creator of an event never changes.  Whatever call takes a step
\* (create, updateEvent, addAttendee, delete, deleteEventsByCreatorAndGroup),
\* every event stored after the step holds the creator it held before, and an
\* event that was not stored before is a new one, with an identity no event
\* ever had, holding the creator its create was called with.
C20_Kept(e) ==
  IF \E j \in DOMAIN events : events[j]._id = e._id
    THEN \A j \in DOMAIN events : events[j]._id = e._id => e.creator = events[j].creator
    ELSE /\ e._id > eventsCreated
         /\ \E p \in Procs : pc[p] = "createEvent_createOne" /\ Stepped(p) /\ e.creator = req[p].actor

C20_CreatorImmutable ==
  [][\A i \in DOMAIN events' : C20_Kept(events'[i])]_vars

\* an event has been through updateEvent and addAttendee and holds the
\* creator it was created with; deleteEventsByCreatorAndGroup for the other
\* user found nothing to delete
C20_Witness ==
  \E p, q \in Procs :
    /\ p # q
    /\ pc[p] = "done" /\ req[p].op = "addAttendee"
    /\ res[p].msg = "Attendee added successfully!"
    /\ res[p].out # Null
    /\ res[p].out.title = "Lunch"
    /\ res[p].out.attendees = Some(<<2, 1>>)
    /\ res[p].out.creator = 1
    /\ readOne(events, "_id", req[p].event) = res[p].out
    /\ pc[q] = "done" /\ req[q].op = "deleteEventsByCreatorAndGroup"
    /\ req[q].actor = 2
    /\ res[q].out.deletedCount = 0
    /\ Len(events) = 1

\* --------------------------------------------------------------- C21
\* the attendees an event holds, as a list; none when the field is undefined
C21_List(attendees) == IF attendees.some THEN attendees.val ELSE <<>>

\* C21: addAttendee(eventId, attendeeId) throws NotFound, changing nothing,
\* when the event does not exist; when attendeeId is already an attendee (as
\* on the second of two calls in sequence) it returns the "already added"
\* result and writes nothing; otherwise a call no request interleaves with
\* leaves the old attendees followed by attendeeId, which is [attendeeId]
\* alone for an event created without attendees, and changes no other field
\* and no other event.
C21_Step(p) ==
  CASE pc[p] = "addAttendee_readOne" ->
         LET event == readOne(events, "_id", req[p].event) IN
           /\ events' = events
           /\ (event = Null) = (pc'[p] = "done" /\ res'[p].err = "NotFound")
           /\ (event # Null /\ \E i \in DOMAIN C21_List(event.attendees) :
                                  C21_List(event.attendees)[i] = req[p].invitee) =>
                /\ pc'[p] = "done"
                /\ res'[p] = [err |-> "", msg |-> "Attendee is already added!", out |-> Null]
           /\ (event # Null /\ \A i \in DOMAIN C21_List(event.attendees) :
                                  C21_List(event.attendees)[i] # req[p].invitee) =>
                pc'[p] = "addAttendee_partialUpdateOne"
    [] pc[p] = "addAttendee_partialUpdateOne" ->
         (solo[p] /\ readOne(events, "_id", req[p].event) # Null) =>
           LET k == first(events, "_id", req[p].event) IN
             /\ Len(events') = Len(events)
             /\ \A i \in DOMAIN events : i # k => events'[i] = events[i]
             /\ events'[k] = [events[k] EXCEPT !.attendees = events'[k].attendees]
             /\ events'[k].attendees.some
             /\ events'[k].attendees.val = Append(C21_List(events[k].attendees), req[p].invitee)
             /\ ~events[k].attendees.some => events'[k].attendees.val = <<req[p].invitee>>
    [] OTHER -> events' = events

C21_AddAttendeeSetAdd ==
  [][\A p \in Procs : (Stepped(p) /\ req[p].op = "addAttendee") => C21_Step(p)]_vars

\* an attendee was added to an event created without attendees, and a second
\* call for the same attendee found it there and left the attendees alone
C21_Witness ==
  \E p, q \in Procs :
    /\ p # q
    /\ pc[p] = "done" /\ req[p].op = "addAttendee" /\ solo[p]
    /\ res[p].msg = "Attendee added successfully!"
    /\ doc[p].attendees = NoList
    /\ res[p].out # Null
    /\ res[p].out.attendees = Some(<<req[p].invitee>>)
    /\ pc[q] = "done" /\ req[q].op = "addAttendee"
    /\ req[q].event = req[p].event
    /\ req[q].invitee = req[p].invitee
    /\ res[q].msg = "Attendee is already added!"
    /\ doc[q] = res[p].out
    /\ readOne(events, "_id", req[p].event) = res[p].out

\* --------------------------------------------------------------- C22
\* C22: Routes.addEventToCalendar never reads or changes the event store;
\* for a session user without a calendar it fails with NotFound and changes
\* nothing; for a session user with a calendar it does not fail, whatever
\* the eventId text and whether or not an event has that identity, and its
\* write changes calendar documents of the session user only.
C22_Step(p) ==
  /\ events' = events
  /\ eventsCreated' = eventsCreated
  /\ pc[p] = "addItem_readOne" =>
       LET calendar == readOne(calendars, "userId", req[p].owner) IN
         /\ calendars' = calendars
         /\ (calendar = Null) = (pc'[p] = "done" /\ res'[p].err = "NotFound")
         /\ calendar # Null =>
              \/ pc'[p] = "addItem_partialUpdateOne"
              \/ pc'[p] = "done" /\ res'[p].err = "" /\ res'[p].msg = "Event added to calendar!"
  /\ pc[p] = "addItem_partialUpdateOne" =>
       /\ Len(calendars') = Len(calendars)
       /\ \A i \in DOMAIN calendars :
            calendars[i].userId # req[p].owner => calendars'[i] = calendars[i]
       /\ \A i \in DOMAIN calendars : calendars'[i].userId = calendars[i].userId
       /\ pc'[p] = "addItem_reread"
  /\ pc[p] = "addItem_reread" =>
       /\ calendars' = calendars
       /\ pc'[p] = "done" /\ res'[p].err = "" /\ res'[p].msg = "Event added to calendar!"

C22_AddEventToCalendarUnchecked ==
  [][\A p \in Procs :
       (Stepped(p) /\ req[p].op = "Routes.addEventToCalendar") => C22_Step(p)]_vars

\* the route has put "party", a text that is no event identity, into the
\* calendar of the session user while the event store holds no event
C22_Witness ==
  \E p \in Procs :
    /\ pc[p] = "done"
    /\ req[p].op = "Routes.addEventToCalendar"
    /\ req[p].item = "party"
    /\ newObjectId(EventHex, EventHexUpper, req[p].item) = 0
    /\ events = <<>>
    /\ res[p].err = ""
    /\ res[p].msg = "Event added to calendar!"
    /\ readOne(calendars, "userId", req[p].owner) # Null
    /\ itemsInclude(readOne(calendars, "userId", req[p].owner).items, "party")

\* --------------------------------------------------------------- C23
C23_CalendarOps == {"createCalendar", "addItem", "removeItem"}
C23_GroupOps == {"create", "inviteUser", "leaveGroup"}
C23_EventOps == {"Eventing.create", "Eventing.delete", "deleteEventsByCreatorAndGroup"}

\* C23: no store operation reaches into another store: every step of an
\* event store call (delete and deleteEventsByCreatorAndGroup among them)
\* leaves every calendar and every group as it was, and every step of a
\* calendar store or group store call leaves the events as they were (and
\* the other of the two stores as well).
C23_NoCascade ==
  [][\A p \in Procs : Stepped(p) =>
        /\ req'[p].op \in C23_EventOps => (calendars' = calendars /\ groups' = groups)
        /\ req'[p].op \in C23_CalendarOps =>
             (events' = events /\ eventsCreated' = eventsCreated /\ groups' = groups)
        /\ req'[p].op \in C23_GroupOps =>
             (events' = events /\ eventsCreated' = eventsCreated /\ calendars' = calendars)]_vars

\* delete has removed a stored event and a calendar still holds the item
\* that names it
C23_Witness ==
  \E p \in Procs :
    /\ pc[p] = "done"
    /\ req[p].op = "Eventing.delete"
    /\ res[p].msg = "Event deleted successfully!"
    /\ req[p].event \in 1..eventsCreated
    /\ readOne(events, "_id", req[p].event) = Null
    /\ \E i \in DOMAIN calendars : \E j \in DOMAIN calendars[i].items :
         newObjectId(EventHex, EventHexUpper, calendars[i].items[j]) = req[p].event

\* --------------------------------------------------------------- C24
\* the number of times item occurs in a list of items
C24_Count(items, item) == Cardinality({j \in DOMAIN items : items[j] = item})

\* what the route would return if it read the whole state at once
C24_Snapshot(groupId) ==
  C13_Concat(readOne(groups, "_id", groupId).members, calendars)

\* in every state user 1 is in the group twice, so the items of the members
\* of the group hold "e1" twice or not at all
C24_EveryState ==
  /\ readOne(groups, "_id", 1) # Null
  /\ C24_Count(C24_Snapshot(1), "e1") \in {0, 2}

\* C24: the aggregation route reads the members and then one calendar per
\* member in separate awaited calls.  A call no other request interleaves
\* with fails with NotFound exactly when there is no such group and otherwise
\* returns the concatenated items of the current members; no step of it
\* writes.  (That an interleaved call can return a list no single state
\* holds is the witness: every state holds "e1" twice or not at all, the
\* call returned it once.)
C24_Step(p) ==
  /\ calendars' = calendars
  /\ groups' = groups
  /\ (pc[p] = "getMembers_readOne" /\ pc'[p] = "done") =>
       (res'[p].err = "NotFound") = (readOne(groups, "_id", req[p].group) = Null)
  /\ (pc'[p] = "done" /\ res'[p].err = "") =>
       /\ res'[p].msg = "Fetched calendar events for group members!"
       /\ solo[p] => res'[p].out.items = C24_Snapshot(req[p].group)

C24_AggregationNotAtomic ==
  [][ /\ C24_EveryState'
      /\ \A p \in Procs :
           ((Stepped(p) \/ doc'[p] # doc[p]) /\ req[p].op = "Routes.getCalendarEventsByGroupId") =>
              C24_Step(p) ]_vars

\* p read the calendar of user 1 before and after an addItem and returned
\* "e1" once, which the members and calendars of no state give; q ran alone
\* afterwards and returned what the state holds
C24_Witness ==
  \E p, q \in Procs :
    /\ pc[p] = "done"
    /\ req[p].op = "Routes.getCalendarEventsByGroupId"
    /\ res[p].err = ""
    /\ ~solo[p]
    /\ req[p].members = <<1, 1>>
    /\ res[p].out.items = <<"e1">>
    /\ pc[q] = "done"
    /\ req[q].op = "Routes.getCalendarEventsByGroupId"
    /\ res[q].err = ""
    /\ solo[q]
    /\ res[q].out.items = <<"e1", "e1">>
    /\ res[q].out.items = C24_Snapshot(req[q].group)

\* --------------------------------------------------------------- C25
\* the event an item text names, as Routes.deleteEventFromCalendar reads it
C25_Names(item) == newObjectId(EventHex, EventHexUpper, item)

\* an event with this identity was created and is no longer stored
C25_Deleted(id) == id \in 1..eventsCreated /\ readOne(events, "_id", id) = Null

C25_In(calendar, item) == \E j \in DOMAIN calendar.items : calendar.items[j] = item

\* a deleted event stays deleted, and a call of the route that reads the
\* event store after the deletion fails with NotFound, whoever the session
\* user is, and changes no calendar
C25_LaterCallsFail ==
  /\ \A id \in EventIds : C25_Deleted(id) => C25_Deleted(id)'
  /\ \A p \in Procs :
       ( /\ pc[p] = "assertCreatorIsUser_readOne"
         /\ Stepped(p)
         /\ req[p].op = "Routes.deleteEventFromCalendar"
         /\ C25_Deleted(req[p].event) ) =>
          /\ pc'[p] = "done"
          /\ res'[p].err = "NotFound"
          /\ calendars' = calendars

\* C25 as stated: once an event is deleted every later call of the route for
\* its id fails with NotFound for every session user, and a calendar item
\* that references the deleted event is in the calendar in all later states.
C25_DanglingItemStays ==
  [][ /\ C25_LaterCallsFail
      /\ \A i \in DOMAIN calendars : \A item \in RouteItemStrings :
           (C25_In(calendars[i], item) /\ C25_Deleted(C25_Names(item))) =>
              C25_In(calendars'[i], item) ]_vars

\* the item references a deleted event and no call in flight holds what can
\* still remove it: neither a removal of this item that passed
\* assertCreatorIsUser before the deletion, nor a write for this calendar
\* computed from items read before the item was there
C25_Settled(i, item) ==
  /\ C25_In(calendars[i], item)
  /\ C25_Deleted(C25_Names(item))
  /\ \A p \in Procs :
       (Mid(p) /\ req[p].owner = calendars[i].userId) =>
          CASE pc[p] = "addItem_partialUpdateOne" -> C25_In(doc[p], item)
            [] pc[p] = "removeItem_partialUpdateOne" -> C25_In(doc[p], item) /\ req[p].item # item
            [] pc[p] = "removeItem_readOne" -> req[p].item # item
            [] OTHER -> TRUE

\* C25 amended: once an event is deleted every call of the route for its id
\* that reads the event store after the deletion fails with NotFound for
\* every session user and changes nothing.  A call that passed
\* assertCreatorIsUser, or read the calendar, before the deletion can still
\* remove the item afterwards; from a state in which no such call is in
\* flight (in particular when no call is in flight at all) the item stays in
\* the calendar in every later state.
C25_DanglingItemStaysOnceSettled ==
  [][ /\ C25_LaterCallsFail
      /\ \A i \in DOMAIN calendars : \A item \in RouteItemStrings :
           C25_Settled(i, item) => C25_Settled(i, item)' ]_vars

\* the event "e1" names was deleted, a call of the route for it has failed
\* with NotFound, no call is in flight and "e1" is still in the calendar
C25_Witness ==
  \E p, q \in Procs :
    /\ p # q
    /\ pc[p] = "done"
    /\ req[p].op = "Routes.deleteEventFromCalendar"
    /\ req[p].item = "e1"
    /\ res[p].err = "NotFound"
    /\ C25_Deleted(req[p].event)
    /\ pc[q] = "done"
    /\ req[q].op = "Eventing.delete"
    /\ req[q].event = req[p].event
    /\ readOne(calendars, "userId", req[p].owner) # Null
    /\ C25_Settled(first(calendars, "userId", req[p].owner), "e1")

\* --------------------------------------------------------------- C26
\* what C26 says of a step of the call p: the items of a calendar change
\* only through the routes; an item is added to the calendar of v only by addEventToCalendar
\* with session user v; a call with another session user w changes the
\* calendar of v only by the write of deleteEventFromCalendar, which takes
\* out the reference to an event that w created and keeps every other item.
C26_Step(p) ==
  /\ Len(calendars') = Len(calendars)
  /\ \A i \in DOMAIN calendars :
       LET v == calendars[i].userId
           before == calendars[i].items
           after == calendars'[i].items IN
         /\ calendars'[i].userId = v
         /\ (\E j \in DOMAIN after : \A k \in DOMAIN before : after[j] # before[k]) =>
              /\ req[p].op = "Routes.addEventToCalendar"
              /\ req[p].actor = v
         /\ (before # after /\ req[p].actor # v) =>
              /\ req[p].op = "Routes.deleteEventFromCalendar"
              /\ pc[p] = "removeItem_partialUpdateOne"
              /\ req[p].owner = v
              /\ after = SelectSeq(before, LAMBDA x : x # req[p].item)
              /\ C25_Names(req[p].item) = req[p].event
              /\ req[p].event \in 1..eventsCreated
              /\ readOne(events, "_id", req[p].event) # Null =>
                   readOne(events, "_id", req[p].event).creator = req[p].actor
         /\ before # after => req[p].op \in {"Routes.addEventToCalendar", "Routes.deleteEventFromCalendar"}

\* C26 as stated: the same of every step of every call, whatever other calls
\* are in flight
C26_CrossUserRemoveOnlyAlways ==
  [][\A p \in Procs : Stepped(p) => C26_Step(p)]_vars

\* C26 amended: the same of every call no other request interleaves with,
\* and the event whose reference such a call removes from the calendar of
\* another user is stored, with the session user as its creator, when the
\* reference is removed
C26_CrossUserRemoveOnly ==
  [][\A p \in Procs : (Stepped(p) /\ solo[p]) =>
        /\ C26_Step(p)
        /\ (calendars' # calendars /\ req[p].actor # req[p].owner) =>
             readOne(events, "_id", req[p].event) # Null ]_vars

\* user 2 has removed the reference to its own event from the calendar of
\* user 1, which keeps the other item user 1 had put there
C26_Witness ==
  \E p \in Procs :
    /\ pc[p] = "done"
    /\ req[p].op = "Routes.deleteEventFromCalendar"
    /\ solo[p]
    /\ req[p].actor = 2
    /\ req[p].owner = 1
    /\ res[p].msg = "Item removed from calendar!"
    /\ readOne(events, "_id", req[p].event) # Null
    /\ readOne(events, "_id", req[p].event).creator = 2
    /\ doc[p].items = <<"party", req[p].item>>
    /\ res[p].out.items = <<"party">>
    /\ readOne(calendars, "userId", 1).items = <<"party">>

====
